---- MODULE Spec2Model ----
(***************************************************************************)
(* A model of cJSON.c: the recursive descent parser, the text composer,    *)
(* the string codec and the tree mutation primitives, over an explicit     *)
(* heap of node records and text buffers.                                  *)
(*                                                                         *)
(* Conventions.  A C string is a sequence of non zero bytes; a pointer     *)
(* into it is a 1-based index, index Len+1 being the terminating NUL, and  *)
(* 0 the NULL pointer.  A heap address is an index into the sequence heap; *)
(* addresses are never reused, so a stale pointer stays recognisable.      *)
(***************************************************************************)
EXTENDS Integers, Sequences, FiniteSets, TLC

VARIABLES
    heap,              \* every block ever handed out by malloc_fn, or owned by the host
    live,              \* addresses malloc_fn returned and free_fn has not yet taken back
    freed,             \* log of the addresses passed to free_fn, in call order
    text,              \* the text argument of the most recent parse call
    call,              \* the most recent API call: its name and its arguments
    ret,               \* what that call returned
    global_ep,         \* the shared error position
    return_parse_end,  \* the caller's own position slot, when it supplied one
    hi,                \* highest index of text read by the most recent parse call
    roots,             \* items the host holds that are attached to no parent
    container,         \* the array or object the host is building, NULL when none
    printbuffer,       \* the host's print buffer: its storage, its length and its offset
    threads            \* the frame of each parse call that is in progress

vars == <<heap, live, freed, text, call, ret, global_ep, return_parse_end, hi, roots,
          container, printbuffer, threads>>

(***************************************************************************)
(* Bytes                                                                   *)
(***************************************************************************)
NULL == 0

\* a print buffer that has no storage
NoBuffer == [buffer |-> NULL, length |-> 0, offset |-> 0]

Ch == [nul |-> 0, bs |-> 8, tab |-> 9, lf |-> 10, ff |-> 12, cr |-> 13,
       sp |-> 32, quote |-> 34, comma |-> 44, minus |-> 45, slash |-> 47,
       d0 |-> 48, d9 |-> 57, colon |-> 58, A |-> 65, F |-> 70,
       lbrack |-> 91, bslash |-> 92, rbrack |-> 93, a |-> 97, b |-> 98,
       f |-> 102, n |-> 110, r |-> 114, t |-> 116, u |-> 117, x |-> 120,
       lbrace |-> 123, rbrace |-> 125]

Lit == [null  |-> <<110, 117, 108, 108>>,
        false |-> <<102, 97, 108, 115, 101>>,
        true  |-> <<116, 114, 117, 101>>]

Max(x, y) == IF x > y THEN x ELSE y

\* *p for a pointer p into the C string t; past the terminator the model reads 0
\* and the read shows in hi
Byte(t, i) == IF i \in 1..Len(t) THEN t[i] ELSE 0

RECURSIVE BitAnd(_, _)
BitAnd(x, y) ==
    IF x = 0 \/ y = 0 THEN 0
    ELSE (x % 2) * (y % 2) + 2 * BitAnd(x \div 2, y \div 2)

RECURSIVE BitOr(_, _)
BitOr(x, y) ==
    IF x = 0 THEN y
    ELSE IF y = 0 THEN x
    ELSE Max(x % 2, y % 2) + 2 * BitOr(x \div 2, y \div 2)

(***************************************************************************)
(* Memory: the allocator hooks and the node record                         *)
(***************************************************************************)
\* value is one storage cell read as a string pointer, a number or a boolean
ZeroValue == [as |-> "zero", v |-> 0]

ZeroNode == [kind |-> "node", type |-> "Invalid", value |-> ZeroValue,
             child |-> NULL, next |-> NULL, name |-> NULL,
             is_reference |-> FALSE, string_is_const |-> FALSE]

\* what reading the cell through the wrong member gives: no valid pointer or number
Garbage == 0 - 1

value_string(node) ==
    IF node.value.as \in {"string", "zero"} THEN node.value.v ELSE Garbage

value_number(node) ==
    IF node.value.as \in {"number", "zero"} THEN node.value.v
    ELSE IF node.value.as = "double" THEN node.value.d
    ELSE Garbage

Buffer(bytes, size) == [kind |-> "buf", bytes |-> bytes, size |-> size]

\* the width of size_t for which the texts of this model are printed: no sum
\* and no doubling of theirs wraps
SizeBits == 16

\* a machine state threaded through one API call: the memory, the count of
\* malloc_fn calls made so far and the one that fails (0: none), the error
\* position *ep and the highest text index read
\* bits is the width of size_t
Machine(h, l, f, failAt) ==
    [heap |-> h, live |-> l, freed |-> f, nalloc |-> 0, failAt |-> failAt,
     ep |-> NULL, hi |-> 0, bits |-> SizeBits]

malloc_fn(m, block) ==
    IF m.nalloc + 1 = m.failAt
    THEN [m |-> [m EXCEPT !.nalloc = @ + 1], p |-> NULL]
    ELSE [m |-> [m EXCEPT !.nalloc = @ + 1,
                          !.heap = Append(@, block),
                          !.live = @ \cup {Len(m.heap) + 1}],
          p |-> Len(m.heap) + 1]

free_fn(m, p) == [m EXCEPT !.live = @ \ {p}, !.freed = Append(@, p)]

Touch(m, i) == [m EXCEPT !.hi = Max(@, i)]

cJSON_strdup(m, str) == malloc_fn(m, Buffer(str, Len(str) + 1))

cJSON_New_Item(m) == malloc_fn(m, ZeroNode)

RECURSIVE internal_cJSON_Delete(_, _)
internal_cJSON_Delete(m, c) ==
    IF c = NULL THEN m
    ELSE LET node == m.heap[c]
             m1 == IF ~node.is_reference /\ node.child # NULL
                   THEN internal_cJSON_Delete(m, node.child) ELSE m
             m2 == IF ~node.is_reference /\ node.type = "String"
                        /\ value_string(node) # NULL
                   THEN free_fn(m1, value_string(node)) ELSE m1
             m3 == IF ~node.string_is_const /\ node.name # NULL
                   THEN free_fn(m2, node.name) ELSE m2
         IN  internal_cJSON_Delete(free_fn(m3, c), node.next)

(***************************************************************************)
(* String codec: parse_hex4, parse_string                                  *)
(***************************************************************************)
\* one hexadecimal digit's value, or -1 for any other byte
HexDigit(c) ==
    IF c >= Ch.d0 /\ c <= Ch.d9 THEN c - Ch.d0
    ELSE IF c >= Ch.A /\ c <= Ch.F THEN 10 + c - Ch.A
    ELSE IF c >= Ch.a /\ c <= Ch.f THEN 10 + c - Ch.a
    ELSE 0 - 1

\* h: the value, 0 for an invalid quartet; last: the last index read
parse_hex4(t, str) ==
    LET quartet(d1, d2, d3, d4) ==
            IF d1 < 0 THEN [h |-> 0, last |-> str]
            ELSE IF d2 < 0 THEN [h |-> 0, last |-> str + 1]
            ELSE IF d3 < 0 THEN [h |-> 0, last |-> str + 2]
            ELSE IF d4 < 0 THEN [h |-> 0, last |-> str + 3]
            ELSE [h |-> ((d1 * 16 + d2) * 16 + d3) * 16 + d4, last |-> str + 3]
    IN  quartet(HexDigit(Byte(t, str)), HexDigit(Byte(t, str + 1)),
                HexDigit(Byte(t, str + 2)), HexDigit(Byte(t, str + 3)))

\* indexed from 0 in the source
firstByteMark == <<0, 0, 192, 224, 240, 248, 252>>

\* a length that knows no code point beyond the basic plane
utf8_length_bmp(uc) == IF uc < 128 THEN 1 ELSE IF uc < 2048 THEN 2 ELSE 3

utf8_length(uc) ==
    IF uc < 128 THEN 1 ELSE IF uc < 2048 THEN 2 ELSE IF uc < 65536 THEN 3 ELSE 4

\* the bytes the switch writes, back to front: cases 4, 3 and 2 fall through to 1
RECURSIVE utf8_bytes(_, _, _)
utf8_bytes(uc, n, len) ==
    IF n = 1 THEN <<BitOr(uc, firstByteMark[len + 1]) % 256>>
    ELSE Append(utf8_bytes(uc \div 64, n - 1, len), BitAnd(BitOr(uc, 128), 191))

utf8_encode(uc) == utf8_bytes(uc, utf8_length(uc), utf8_length(uc))

\* the sizing loop: [ok, end_ptr, len, hi]
RECURSIVE scan_string(_, _, _)
scan_string(t, end_ptr, len) ==
    IF Byte(t, end_ptr) = Ch.quote \/ Byte(t, end_ptr) = Ch.nul
    THEN [ok |-> TRUE, end_ptr |-> end_ptr, len |-> len, hi |-> end_ptr]
    ELSE IF Byte(t, end_ptr) = Ch.bslash
         THEN IF Byte(t, end_ptr + 1) = Ch.nul
              THEN [ok |-> FALSE, end_ptr |-> end_ptr + 1, len |-> len + 1,
                    hi |-> end_ptr + 1]
              ELSE scan_string(t, end_ptr + 2, len + 1)
         ELSE scan_string(t, end_ptr + 1, len + 1)

\* case 'u' of the decoding switch, after the second half of a surrogate pair
\* was read as q2; p4 is ptr after "ptr += 4"
decode_utf16_second(t, p4, end_ptr, q1, q2) ==
    IF p4 + 6 > end_ptr
    THEN [ok |-> FALSE, ptr |-> p4, bytes |-> <<>>, hi |-> q1.last]
    ELSE IF Byte(t, p4 + 1) # Ch.bslash
    THEN [ok |-> FALSE, ptr |-> p4, bytes |-> <<>>, hi |-> Max(q1.last, p4 + 1)]
    ELSE IF Byte(t, p4 + 2) # Ch.u
    THEN [ok |-> FALSE, ptr |-> p4, bytes |-> <<>>, hi |-> Max(q1.last, p4 + 2)]
    ELSE IF q2.h < 56320 \/ q2.h > 57343
    THEN [ok |-> FALSE, ptr |-> p4, bytes |-> <<>>, hi |-> q2.last]
    ELSE [ok |-> TRUE, ptr |-> p4 + 6,
          bytes |-> utf8_encode(65536 + BitOr(BitAnd(q1.h, 1023) * 1024,
                                              BitAnd(q2.h, 1023))),
          hi |-> q2.last]

\* case 'u' of the decoding switch, after the first quartet was read as q1
decode_utf16_first(t, p4, end_ptr, q1) ==
    IF p4 >= end_ptr \/ (q1.h >= 56320 /\ q1.h <= 57343) \/ q1.h = 0
    THEN [ok |-> FALSE, ptr |-> p4, bytes |-> <<>>, hi |-> q1.last]
    ELSE IF q1.h >= 55296 /\ q1.h <= 56319
    THEN decode_utf16_second(t, p4, end_ptr, q1, parse_hex4(t, p4 + 3))
    ELSE [ok |-> TRUE, ptr |-> p4, bytes |-> utf8_encode(q1.h), hi |-> q1.last]

\* case 'u' of the decoding switch, ptr at the 'u': [ok, ptr, bytes, hi]
decode_utf16(t, ptr, end_ptr) ==
    decode_utf16_first(t, ptr + 4, end_ptr, parse_hex4(t, ptr + 1))

\* what the switch writes for the escape character e other than 'u'
unescape(e) ==
    CASE e = Ch.b -> Ch.bs
      [] e = Ch.f -> Ch.ff
      [] e = Ch.n -> Ch.lf
      [] e = Ch.r -> Ch.cr
      [] e = Ch.t -> Ch.tab
      [] OTHER -> e

\* the decoding loop: [ok, ptr, out, hi]
RECURSIVE decode_string(_, _, _, _, _)
decode_string(t, ptr, end_ptr, out, h) ==
    IF ~(ptr < end_ptr) THEN [ok |-> TRUE, ptr |-> ptr, out |-> out, hi |-> h]
    ELSE IF Byte(t, ptr) # Ch.bslash
    THEN decode_string(t, ptr + 1, end_ptr, Append(out, Byte(t, ptr)), Max(h, ptr))
    ELSE IF Byte(t, ptr + 1) \in {Ch.b, Ch.f, Ch.n, Ch.r, Ch.t,
                                  Ch.quote, Ch.bslash, Ch.slash}
    THEN decode_string(t, ptr + 2, end_ptr, Append(out, unescape(Byte(t, ptr + 1))),
                       Max(h, ptr + 1))
    ELSE IF Byte(t, ptr + 1) = Ch.u
    THEN LET transcoded(d) ==
                 IF d.ok
                 THEN decode_string(t, d.ptr + 1, end_ptr, out \o d.bytes,
                                    Max(Max(h, ptr + 1), d.hi))
                 ELSE [ok |-> FALSE, ptr |-> d.ptr, out |-> out,
                       hi |-> Max(Max(h, ptr + 1), d.hi)]
         IN  transcoded(decode_utf16(t, ptr + 1, end_ptr))
    ELSE [ok |-> FALSE, ptr |-> ptr + 1, out |-> out, hi |-> Max(h, ptr + 1)]

\* parse_string from the allocation of out on; s: the sizing loop, a: the
\* allocation, d: the decoding loop
parse_string_out(t, m, item, str, s, a, d) ==
    IF a.p = NULL THEN [m |-> a.m, end |-> NULL]
    ELSE IF ~d.ok
    THEN [m |-> [Touch(a.m, d.hi) EXCEPT
                    !.heap[item].value = [as |-> "string", v |-> a.p],
                    !.heap[item].type = "String",
                    !.heap[a.p].bytes = d.out,
                    !.ep = str],
          end |-> NULL]
    ELSE [m |-> [Touch(a.m, Max(d.hi, d.ptr)) EXCEPT
                    !.heap[item].value = [as |-> "string", v |-> a.p],
                    !.heap[item].type = "String",
                    !.heap[a.p].bytes = d.out],
          end |-> IF Byte(t, d.ptr) = Ch.quote THEN d.ptr + 1 ELSE d.ptr]

\* parse_string after the sizing loop s
parse_string_sized(t, m, item, str, s) ==
    IF ~s.ok THEN [m |-> Touch(m, s.hi), end |-> NULL]
    ELSE parse_string_out(t, m, item, str, s,
                          malloc_fn(Touch(m, s.hi), Buffer(<<>>, s.len + 1)),
                          decode_string(t, str + 1, s.end_ptr, <<>>, s.hi))

\* [m, end]: end is the pointer returned, NULL on failure
parse_string(t, m, item, str) ==
    IF Byte(t, str) # Ch.quote
    THEN [m |-> [Touch(m, str) EXCEPT !.ep = str], end |-> NULL]
    ELSE parse_string_sized(t, m, item, str, scan_string(t, str + 1, 0))

(***************************************************************************)
(* Parser                                                                  *)
(***************************************************************************)
RECURSIVE skip(_, _)
skip(t, in) ==
    IF in # NULL /\ Byte(t, in) # 0 /\ Byte(t, in) <= 32
    THEN skip(t, in + 1) ELSE in

IsDigit(c) == c >= Ch.d0 /\ c <= Ch.d9

\* the value of the digit run that starts at index i, continuing acc, and the
\* index of the first byte after the run
RECURSIVE digits(_, _, _)
digits(t, i, acc) ==
    IF IsDigit(Byte(t, i)) THEN digits(t, i + 1, acc * 10 + (Byte(t, i) - Ch.d0))
    ELSE [v |-> acc, end |-> i]

\* strtod on an optional sign and a run of decimal digits, the only number
\* texts the inputs of this model hold; endpointer = num when nothing converts
strtod(t, num) ==
    LET converted(neg, from, d) ==
            IF d.end = from
            THEN [number |-> 0, endpointer |-> num, hi |-> d.end]
            ELSE [number |-> IF neg THEN 0 - d.v ELSE d.v, endpointer |-> d.end,
                  hi |-> d.end]
    IN  IF Byte(t, num) = Ch.minus
        THEN converted(TRUE, num + 1, digits(t, num + 1, 0))
        ELSE converted(FALSE, num, digits(t, num, 0))

parse_number(t, m, item, num) ==
    LET stored(s) ==
            IF num = s.endpointer THEN [m |-> Touch(m, s.hi), end |-> NULL]
            ELSE [m |-> [Touch(m, s.hi) EXCEPT
                            !.heap[item].value = [as |-> "number", v |-> s.number],
                            !.heap[item].type = "Number"],
                  end |-> s.endpointer]
    IN  stored(strtod(t, num))

\* the index of the byte that decides strncmp(value, lit, Len(lit))
RECURSIVE strncmp_stop(_, _, _, _)
strncmp_stop(t, value, lit, k) ==
    IF k = Len(lit) \/ Byte(t, value + k - 1) # lit[k] \/ Byte(t, value + k - 1) = 0
    THEN k ELSE strncmp_stop(t, value, lit, k + 1)

\* 0 when the first Len(lit) bytes at value are lit
strncmp(t, value, lit) ==
    LET k == strncmp_stop(t, value, lit, 1)
    IN  IF Byte(t, value + k - 1) = lit[k] THEN 0 ELSE 1

strncmp_hi(t, value, lit) == value + strncmp_stop(t, value, lit, 1) - 1

RECURSIVE parse_value(_, _, _, _)
RECURSIVE parse_array(_, _, _, _)
RECURSIVE parse_object(_, _, _, _)
RECURSIVE parse_array_loop(_, _, _, _)
RECURSIVE parse_object_loop(_, _, _, _)

\* value = skip(parse_value(child, skip(value), ep, hooks))
parse_element(t, m, child, value) ==
    LET skipped(r) == [m |-> Touch(r.m, skip(t, r.end)), end |-> skip(t, r.end)]
    IN  skipped(parse_value(t, Touch(m, skip(t, value)), child, skip(t, value)))

parse_value(t, m, item, value) ==
    IF value = NULL THEN [m |-> m, end |-> NULL]
    ELSE IF strncmp(t, value, Lit.null) = 0
    THEN [m |-> [Touch(m, value + 3) EXCEPT !.heap[item].type = "NULL"],
          end |-> value + 4]
    ELSE IF strncmp(t, value, Lit.false) = 0
    THEN [m |-> [Touch(m, value + 4) EXCEPT
                    !.heap[item].type = "False",
                    !.heap[item].value = [as |-> "boolean", v |-> 0]],
          end |-> value + 5]
    ELSE IF strncmp(t, value, Lit.true) = 0
    THEN [m |-> [Touch(m, value + 3) EXCEPT
                    !.heap[item].type = "True",
                    !.heap[item].value = [as |-> "boolean", v |-> 1]],
          end |-> value + 4]
    ELSE IF Byte(t, value) = Ch.quote
    THEN parse_string(t, Touch(m, value), item, value)
    ELSE IF Byte(t, value) = Ch.minus \/ IsDigit(Byte(t, value))
    THEN parse_number(t, Touch(m, value), item, value)
    ELSE IF Byte(t, value) = Ch.lbrack
    THEN parse_array(t, Touch(m, value), item, value)
    ELSE IF Byte(t, value) = Ch.lbrace
    THEN parse_object(t, Touch(m, value), item, value)
    ELSE [m |-> [Touch(m, Max(strncmp_hi(t, value, Lit.null),
                              Max(strncmp_hi(t, value, Lit.false),
                                  strncmp_hi(t, value, Lit.true))))
                 EXCEPT !.ep = value],
          end |-> NULL]

\* after an element was parsed as r into child: the rest of the array
parse_array_rest(t, child, r) ==
    IF r.end = NULL THEN [m |-> r.m, end |-> NULL]
    ELSE parse_array_loop(t, r.m, child, r.end)

\* the new item n, linked as owner->field, takes the element at value
parse_array_child(t, owner, field, n, value) ==
    IF n.p = NULL THEN [m |-> n.m, end |-> NULL]
    ELSE parse_array_rest(t, n.p,
             parse_element(t, [n.m EXCEPT !.heap[owner][field] = n.p], n.p, value))

\* a loop that takes the end of the text for the closing bracket
parse_array_loop_unclosed(t, m, child, value) ==
    IF Byte(t, value) = Ch.comma
    THEN parse_array_child(t, child, "next", cJSON_New_Item(m), value + 1)
    ELSE IF Byte(t, value) = Ch.rbrack THEN [m |-> m, end |-> value + 1]
    ELSE IF Byte(t, value) = 0 THEN [m |-> m, end |-> value]
    ELSE [m |-> [m EXCEPT !.ep = value], end |-> NULL]

\* the while loop over the comma separated elements, then the closing bracket
parse_array_loop(t, m, child, value) ==
    IF Byte(t, value) = Ch.comma
    THEN parse_array_child(t, child, "next", cJSON_New_Item(m), value + 1)
    ELSE IF Byte(t, value) = Ch.rbrack THEN [m |-> m, end |-> value + 1]
    ELSE [m |-> [m EXCEPT !.ep = value], end |-> NULL]

parse_array(t, m, item, value) ==
    IF Byte(t, value) # Ch.lbrack
    THEN [m |-> [m EXCEPT !.ep = value], end |-> NULL]
    ELSE IF Byte(t, skip(t, value + 1)) = Ch.rbrack
    THEN [m |-> [Touch(m, skip(t, value + 1)) EXCEPT !.heap[item].type = "Array"],
          end |-> skip(t, value + 1) + 1]
    ELSE parse_array_child(t, item, "child",
             cJSON_New_Item([Touch(m, skip(t, value + 1)) EXCEPT
                                !.heap[item].type = "Array"]),
             skip(t, value + 1))

\* one member after its key was parsed as k: the ':' and the value
parse_member_value(t, child, k) ==
    IF skip(t, k.end) = NULL THEN [m |-> k.m, end |-> NULL]
    ELSE IF Byte(t, skip(t, k.end)) # Ch.colon
    \* child->name = child->value.string; child->value.string = NULL
    THEN [m |-> [Touch(k.m, skip(t, k.end)) EXCEPT
                    !.heap[child].name = value_string(k.m.heap[child]),
                    !.heap[child].value = [as |-> "string", v |-> NULL],
                    !.ep = skip(t, k.end)],
          end |-> NULL]
    ELSE parse_element(t, [Touch(k.m, skip(t, k.end)) EXCEPT
                              !.heap[child].name = value_string(k.m.heap[child]),
                              !.heap[child].value = [as |-> "string", v |-> NULL]],
                       child, skip(t, k.end) + 1)

\* one member: the key by parse_string, the ':', the value; value is where the
\* key is looked for
parse_member(t, m, child, value) ==
    parse_member_value(t, child,
        parse_string(t, Touch(m, skip(t, value)), child, skip(t, value)))

\* after a member was parsed as r into child: the rest of the object
parse_object_rest(t, child, r) ==
    IF r.end = NULL THEN [m |-> r.m, end |-> NULL]
    ELSE parse_object_loop(t, r.m, child, r.end)

\* the new item n, linked as owner->field, takes the member at value
parse_object_child(t, owner, field, n, value) ==
    IF n.p = NULL THEN [m |-> n.m, end |-> NULL]
    ELSE parse_object_rest(t, n.p,
             parse_member(t, [n.m EXCEPT !.heap[owner][field] = n.p], n.p, value))

parse_object_loop(t, m, child, value) ==
    IF Byte(t, value) = Ch.comma
    THEN parse_object_child(t, child, "next", cJSON_New_Item(m), value + 1)
    ELSE IF Byte(t, value) = Ch.rbrace THEN [m |-> m, end |-> value + 1]
    ELSE [m |-> [m EXCEPT !.ep = value], end |-> NULL]

parse_object(t, m, item, value) ==
    IF Byte(t, value) # Ch.lbrace
    THEN [m |-> [m EXCEPT !.ep = value], end |-> NULL]
    ELSE IF Byte(t, skip(t, value + 1)) = Ch.rbrace
    THEN [m |-> [Touch(m, skip(t, value + 1)) EXCEPT !.heap[item].type = "Object"],
          end |-> skip(t, value + 1) + 1]
    ELSE parse_object_child(t, item, "child",
             cJSON_New_Item([Touch(m, skip(t, value + 1)) EXCEPT
                                !.heap[item].type = "Object"]),
             skip(t, value + 1))

\* an ending that never looks at what follows the value
parse_end_unchecked(t, c, r, has_return_parse_end, require_null_terminated) ==
    IF r.end = NULL
    THEN [m |-> internal_cJSON_Delete(r.m, c), c |-> NULL, ep |-> r.m.ep]
    ELSE [m |-> r.m, c |-> c, ep |-> IF has_return_parse_end THEN r.end ELSE r.m.ep]

\* cJSON_ParseWithOpts after parse_value returned r for the root c
parse_end(t, c, r, has_return_parse_end, require_null_terminated) ==
    IF r.end = NULL
    THEN [m |-> internal_cJSON_Delete(r.m, c), c |-> NULL, ep |-> r.m.ep]
    ELSE IF ~require_null_terminated
    THEN [m |-> r.m, c |-> c, ep |-> IF has_return_parse_end THEN r.end ELSE r.m.ep]
    ELSE IF Byte(t, skip(t, r.end)) # 0
    THEN [m |-> internal_cJSON_Delete(Touch(r.m, skip(t, r.end)), c), c |-> NULL,
          ep |-> skip(t, r.end)]
    ELSE [m |-> Touch(r.m, skip(t, r.end)), c |-> c,
          ep |-> IF has_return_parse_end THEN skip(t, r.end) ELSE r.m.ep]

\* a failure of parse_value that leaves the partial tree allocated
parse_root_kept(t, value, c, has_return_parse_end, require_null_terminated) ==
    LET ended(r) ==
            IF r.end = NULL THEN [m |-> r.m, c |-> NULL, ep |-> r.m.ep]
            ELSE parse_end(t, c.p, r, has_return_parse_end, require_null_terminated)
    IN  IF c.p = NULL THEN [m |-> [c.m EXCEPT !.ep = NULL], c |-> NULL, ep |-> NULL]
        ELSE ended(parse_value(t, [Touch(c.m, skip(t, value)) EXCEPT !.ep = NULL],
                               c.p, skip(t, value)))

\* cJSON_ParseWithOpts after the root item was allocated as c
parse_root(t, value, c, has_return_parse_end, require_null_terminated) ==
    IF c.p = NULL THEN [m |-> [c.m EXCEPT !.ep = NULL], c |-> NULL, ep |-> NULL]
    ELSE parse_end(t, c.p,
             parse_value(t, [Touch(c.m, skip(t, value)) EXCEPT !.ep = NULL], c.p,
                         skip(t, value)),
             has_return_parse_end, require_null_terminated)

\* value: the text pointer (1, or NULL for an absent text).  The result holds
\* the memory, the node returned and what *ep holds on return
cJSON_ParseWithOpts(t, value, m, has_return_parse_end, require_null_terminated) ==
    parse_root(t, value, cJSON_New_Item(m), has_return_parse_end,
               require_null_terminated)

(***************************************************************************)
(* Composer, unbuffered (p = NULL): every fragment is its own allocation   *)
(***************************************************************************)
\* the decimal digits of n > 0
RECURSIVE decimal(_)
decimal(n) ==
    IF n < 10 THEN <<Ch.d0 + n>> ELSE Append(decimal(n \div 10), Ch.d0 + (n % 10))

\* sprintf(str, "%d", value)
sprintf_d(value) ==
    IF value < 0 THEN <<Ch.minus>> \o decimal(0 - value)
    ELSE decimal(value)

\* A double that is an integer within [INT_MIN, INT_MAX] is held as that
\* integer, value.as being "number".  Any other double is held in value.d, with
\* value.as "double": NaN, an infinity, or the decimal d1.d2...dn * 10^exp with d1 and
\* dn not zero.  The decimals of this model are doubles that printf renders
\* as the decimal is rounded: none is a tie of the rounding, and none that is
\* an integer has digits a double cannot hold.
Dec(neg, ds, exp) == [class |-> "finite", neg |-> neg, digits |-> ds, exp |-> exp]

NaN == [class |-> "nan"]

Infinity == [class |-> "inf"]

zeros(n) == [i \in 1..n |-> 0]

\* is the digit string a not above the digit string b of the same length
RECURSIVE digits_le(_, _)
digits_le(a, b) ==
    IF a = <<>> THEN TRUE
    ELSE IF Head(a) # Head(b) THEN Head(a) < Head(b)
    ELSE digits_le(Tail(a), Tail(b))

\* the first n digits of ds, with zeros when ds has fewer
padded(ds, n) == IF Len(ds) >= n THEN SubSeq(ds, 1, n) ELSE ds \o zeros(n - Len(ds))

\* the 17 leading digits of DBL_EPSILON, 2.220446049250313e-16
DBL_EPSILON_digits == <<2, 2, 2, 0, 4, 4, 6, 0, 4, 9, 2, 5, 0, 3, 1, 3, 1>>

\* fabs(floor(d) - d) <= DBL_EPSILON.  Below an integer the difference is one
\* minus a fraction of a few digits, which is above DBL_EPSILON
near_floor(d) ==
    \/ Len(d.digits) - 1 <= d.exp
    \/ /\ ~d.neg
       /\ \/ d.exp < 0 - 16
          \/ d.exp = 0 - 16 /\ digits_le(padded(d.digits, 17), DBL_EPSILON_digits)

\* the ten digits of INT_MAX, and of INT_MIN without its sign
INT_MAX_digits == <<2, 1, 4, 7, 4, 8, 3, 6, 4, 7>>

INT_MIN_digits == <<2, 1, 4, 7, 4, 8, 3, 6, 4, 8>>

\* d <= INT_MAX && d >= INT_MIN
in_int_range(d) ==
    \/ d.exp < 9
    \/ /\ d.exp = 9
       /\ IF d.neg
          THEN digits_le(padded(d.digits, 10), INT_MIN_digits)
               /\ (Len(d.digits) <= 10 \/ padded(d.digits, 10) # INT_MIN_digits)
          ELSE digits_le(padded(d.digits, 10), INT_MAX_digits)
               /\ (Len(d.digits) <= 10 \/ padded(d.digits, 10) # INT_MAX_digits)

\* (int)d: the integer part, for a d next to its floor and within the range
RECURSIVE digits_value(_)
digits_value(ds) ==
    IF ds = <<>> THEN 0 ELSE digits_value(SubSeq(ds, 1, Len(ds) - 1)) * 10 + ds[Len(ds)]

to_int(d) ==
    IF d.exp < 0 THEN 0
    ELSE IF d.neg THEN 0 - digits_value(padded(d.digits, d.exp + 1))
    ELSE digits_value(padded(d.digits, d.exp + 1))

digit_chars(ds) == [i \in 1..Len(ds) |-> Ch.d0 + ds[i]]

\* ds plus one in its last place; one digit longer when every digit was 9
RECURSIVE plus_one(_)
plus_one(ds) ==
    IF ds = <<>> THEN <<1>>
    ELSE IF ds[Len(ds)] = 9 THEN plus_one(SubSeq(ds, 1, Len(ds) - 1)) \o <<0>>
    ELSE SubSeq(ds, 1, Len(ds) - 1) \o <<ds[Len(ds)] + 1>>

\* ds rounded to n digits, n >= 1: n digits, or n + 1 when the rounding carried
\* out of the first
rounded(ds, n) ==
    IF Len(ds) > n /\ ds[n + 1] >= 5 THEN plus_one(SubSeq(ds, 1, n))
    ELSE padded(ds, n)

\* sprintf(str, "%.0f", d) for a d that is an integer
sprintf_0f(d) ==
    (IF d.neg THEN <<Ch.minus>> ELSE <<>>) \o digit_chars(padded(d.digits, d.exp + 1))

\* sprintf(str, "%e", d)
sprintf_e(d) ==
    LET shown(r, exp) ==
            (IF d.neg THEN <<Ch.minus>> ELSE <<>>)
            \o <<Ch.d0 + r[1], 46>> \o digit_chars(SubSeq(r, 2, 7))
            \o <<101, IF exp < 0 THEN Ch.minus ELSE 43>>
            \o (IF exp > 0 - 10 /\ exp < 10 THEN <<Ch.d0>> ELSE <<>>)
            \o decimal(IF exp < 0 THEN 0 - exp ELSE exp)
        carried(r) == IF Len(r) = 8 THEN shown(r, d.exp + 1) ELSE shown(r, d.exp)
    IN  carried(rounded(d.digits, 7))

\* sprintf(str, "%f", d) for 1.0e-6 <= fabs(d)
sprintf_f(d) ==
    LET shown(r, exp) ==
            (IF d.neg THEN <<Ch.minus>> ELSE <<>>)
            \o (IF exp < 0
                THEN <<Ch.d0, 46>> \o digit_chars(zeros(0 - exp - 1) \o SubSeq(r, 1, exp + 7))
                ELSE digit_chars(SubSeq(r, 1, exp + 1)) \o <<46>>
                     \o digit_chars(SubSeq(r, exp + 2, exp + 7)))
        carried(r) ==
            IF Len(r) = d.exp + 8 THEN shown(r, d.exp + 1) ELSE shown(r, d.exp)
    IN  carried(rounded(d.digits, d.exp + 7))

\* print_number for a double that is not an integer within the int range
print_double(m, d) ==
    IF d.class = "finite" /\ near_floor(d) /\ in_int_range(d)
    THEN malloc_fn(m, Buffer(sprintf_d(to_int(d)), 21))
    ELSE IF d.class # "finite" THEN malloc_fn(m, Buffer(Lit.null, 64))
    ELSE IF near_floor(d) /\ d.exp < 60 THEN malloc_fn(m, Buffer(sprintf_0f(d), 64))
    ELSE IF d.exp < 0 - 6 \/ d.exp > 9 \/ (d.exp = 9 /\ d.digits # <<1>>)
    THEN malloc_fn(m, Buffer(sprintf_e(d), 64))
    ELSE malloc_fn(m, Buffer(sprintf_f(d), 64))

\* a rendering that takes the scientific form for every magnitude above 1.0e9
print_number_scientific(m, item) ==
    LET rendered(d) ==
            IF d = 0 THEN malloc_fn(m, Buffer(<<Ch.d0>>, 2))
            ELSE malloc_fn(m, Buffer(sprintf_d(d), 21))
        large(d) ==
            IF d.class = "finite" /\ (d.exp > 9 \/ (d.exp = 9 /\ d.digits # <<1>>))
            THEN malloc_fn(m, Buffer(sprintf_e(d), 64))
            ELSE print_double(m, d)
    IN  IF m.heap[item].value.as = "double" THEN large(value_number(m.heap[item]))
        ELSE rendered(value_number(m.heap[item]))

print_number(m, item) ==
    LET rendered(d) ==
            IF d = 0 THEN malloc_fn(m, Buffer(<<Ch.d0>>, 2))
            ELSE malloc_fn(m, Buffer(sprintf_d(d), 21))
    IN  IF m.heap[item].value.as = "double"
        THEN print_double(m, value_number(m.heap[item]))
        ELSE rendered(value_number(m.heap[item]))

HexChar(d) == IF d < 10 THEN Ch.d0 + d ELSE Ch.a + (d - 10)

\* sprintf(ptr2, "u%04x", token)
sprintf_u04x(token) ==
    <<Ch.u, Ch.d0, Ch.d0, HexChar(token \div 16), HexChar(token % 16)>>

\* a copy loop that escapes nothing
escape_byte_verbatim(c) == <<c>>

\* what the copy loop writes for one byte of the string
escape_byte(c) ==
    IF c > 31 /\ c # Ch.quote /\ c # Ch.bslash THEN <<c>>
    ELSE IF c = Ch.bslash THEN <<Ch.bslash, Ch.bslash>>
    ELSE IF c = Ch.quote THEN <<Ch.bslash, Ch.quote>>
    ELSE IF c = Ch.bs THEN <<Ch.bslash, Ch.b>>
    ELSE IF c = Ch.ff THEN <<Ch.bslash, Ch.f>>
    ELSE IF c = Ch.lf THEN <<Ch.bslash, Ch.n>>
    ELSE IF c = Ch.cr THEN <<Ch.bslash, Ch.r>>
    ELSE IF c = Ch.tab THEN <<Ch.bslash, Ch.t>>
    ELSE <<Ch.bslash>> \o sprintf_u04x(c)

RECURSIVE escape_bytes(_, _)
escape_bytes(str, i) ==
    IF i > Len(str) THEN <<>> ELSE escape_byte(str[i]) \o escape_bytes(str, i + 1)

\* the space the sizing loop adds up for the escaped string
RECURSIVE escape_len(_, _)
escape_len(str, i) ==
    IF i > Len(str) THEN 0
    ELSE escape_len(str, i + 1) + 1 +
         (IF str[i] \in {Ch.quote, Ch.bslash, Ch.bs, Ch.ff, Ch.lf, Ch.cr, Ch.tab}
          THEN 1 ELSE IF str[i] < 32 THEN 5 ELSE 0)

\* str is the address of a text buffer, or NULL
print_string_ptr(m, str) ==
    LET copied(bytes, flag) ==
            IF ~flag
            THEN malloc_fn(m, Buffer(<<Ch.quote>> \o bytes \o <<Ch.quote>>,
                                     Len(bytes) + 3))
            ELSE malloc_fn(m, Buffer(<<Ch.quote>> \o escape_bytes(bytes, 1)
                                         \o <<Ch.quote>>,
                                     escape_len(bytes, 1) + 3))
        sized(bytes) ==
            copied(bytes, \E i \in 1..Len(bytes) :
                              (bytes[i] > 0 /\ bytes[i] < 32)
                              \/ bytes[i] = Ch.quote \/ bytes[i] = Ch.bslash)
    IN  IF str = NULL THEN malloc_fn(m, Buffer(<<Ch.quote, Ch.quote>>, 3))
        ELSE sized(m.heap[str].bytes)

print_string(m, item) == print_string_ptr(m, value_string(m.heap[item]))

RECURSIVE chain_length(_, _)
chain_length(h, c) == IF c = NULL THEN 0 ELSE 1 + chain_length(h, h[c].next)

tabs(n) == [i \in 1..n |-> Ch.tab]

\* a failure path that leaves the printed entries allocated
free_entries_kept(m, entries, i) == m

\* free every non NULL entry of a table, in index order
RECURSIVE free_entries(_, _, _)
free_entries(m, entries, i) ==
    IF i > Len(entries) THEN m
    ELSE free_entries(IF entries[i] # NULL THEN free_fn(m, entries[i]) ELSE m,
                      entries, i + 1)

RECURSIVE print_value(_, _, _, _)
RECURSIVE print_array_entries(_, _, _, _, _)
RECURSIVE print_object_entries(_, _, _, _, _, _)
RECURSIVE print_object_entry(_, _, _, _, _, _, _)

\* the "Retrieve all the results" loop: [m, entries, fail]
print_array_entries(m, child, depth, fmt, entries) ==
    IF child = NULL THEN [m |-> m, entries |-> entries, fail |-> FALSE]
    ELSE LET printed(r) ==
                 IF r.p = NULL
                 THEN [m |-> r.m, entries |-> Append(entries, NULL), fail |-> TRUE]
                 ELSE print_array_entries(r.m, m.heap[child].next, depth, fmt,
                                          Append(entries, r.p))
         IN  printed(print_value(m, child, depth + 1, fmt))

RECURSIVE compose_array(_, _, _, _)
compose_array(h, entries, i, fmt) ==
    IF i > Len(entries) THEN <<Ch.rbrack>>
    ELSE h[entries[i]].bytes
         \o (IF i # Len(entries)
             THEN <<Ch.comma>> \o (IF fmt THEN <<Ch.sp>> ELSE <<>>) ELSE <<>>)
         \o compose_array(h, entries, i + 1, fmt)

RECURSIVE entries_len(_, _, _)
entries_len(h, entries, i) ==
    IF i > Len(entries) THEN 0
    ELSE Len(h[entries[i]].bytes) + entries_len(h, entries, i + 1)

\* print_array after the entries were printed as e into the table
print_array_compose(table, e, fmt) ==
    LET failed(mm) == free_fn(free_entries(mm, e.entries, 1), table.p)
        composed(out) == [m |-> failed(out.m), p |-> out.p]
    IN  IF e.fail THEN [m |-> failed(e.m), p |-> NULL]
        ELSE composed(malloc_fn(e.m,
                 Buffer(<<Ch.lbrack>> \o compose_array(e.m.heap, e.entries, 1, fmt),
                        5 + entries_len(e.m.heap, e.entries, 1)
                          + Len(e.entries) * (2 + (IF fmt THEN 1 ELSE 0)))))

\* print_array after the entries table was allocated
print_array_table(table, child, depth, fmt) ==
    IF table.p = NULL THEN [m |-> table.m, p |-> NULL]
    ELSE print_array_compose(table,
             print_array_entries(table.m, child, depth, fmt, <<>>), fmt)

print_array(m, item, depth, fmt) ==
    IF m.heap[item].child = NULL
    THEN malloc_fn(m, Buffer(<<Ch.lbrack, Ch.rbrack>>, 3))
    ELSE print_array_table(
             malloc_fn(m, [kind |-> "table",
                           size |-> chain_length(m.heap, m.heap[item].child)]),
             m.heap[item].child, depth, fmt)

\* the "Collect all the results" loop: [m, names, entries, fail]
print_object_entries(m, child, depth, fmt, names, entries) ==
    IF child = NULL
    THEN [m |-> m, names |-> names, entries |-> entries, fail |-> FALSE]
    ELSE print_object_entry(m.heap[child].next, depth, fmt, names, entries,
             print_string_ptr(m, m.heap[child].name), child)

\* one round of the loop after the name of child was printed as str
print_object_entry(next, depth, fmt, names, entries, str, child) ==
    LET printed(r) ==
            IF str.p = NULL \/ r.p = NULL
            THEN [m |-> r.m, names |-> Append(names, str.p),
                  entries |-> Append(entries, r.p), fail |-> TRUE]
            ELSE print_object_entries(r.m, next, depth, fmt,
                                      Append(names, str.p), Append(entries, r.p))
    IN  printed(print_value(str.m, child, depth, fmt))

\* a composition with nothing between the ':' and the value
RECURSIVE compose_object_bare(_, _, _, _, _, _)
compose_object_bare(h, names, entries, i, depth, fmt) ==
    IF i > Len(entries)
    THEN (IF fmt THEN tabs(depth - 1) ELSE <<>>) \o <<Ch.rbrace>>
    ELSE (IF fmt THEN tabs(depth) ELSE <<>>)
         \o h[names[i]].bytes \o <<Ch.colon>>
         \o h[entries[i]].bytes
         \o (IF i # Len(entries) THEN <<Ch.comma>> ELSE <<>>)
         \o (IF fmt THEN <<Ch.lf>> ELSE <<>>)
         \o compose_object_bare(h, names, entries, i + 1, depth, fmt)

\* depth is the depth of the members
RECURSIVE compose_object(_, _, _, _, _, _)
compose_object(h, names, entries, i, depth, fmt) ==
    IF i > Len(entries)
    THEN (IF fmt THEN tabs(depth - 1) ELSE <<>>) \o <<Ch.rbrace>>
    ELSE (IF fmt THEN tabs(depth) ELSE <<>>)
         \o h[names[i]].bytes \o <<Ch.colon>>
         \o (IF fmt THEN <<Ch.tab>> ELSE <<>>)
         \o h[entries[i]].bytes
         \o (IF i # Len(entries) THEN <<Ch.comma>> ELSE <<>>)
         \o (IF fmt THEN <<Ch.lf>> ELSE <<>>)
         \o compose_object(h, names, entries, i + 1, depth, fmt)

\* free names[i] then entries[i], for every i in index order
RECURSIVE free_members(_, _, _, _)
free_members(m, names, entries, i) ==
    IF i > Len(entries) THEN m
    ELSE free_members(
             IF entries[i] # NULL
             THEN free_fn(IF names[i] # NULL THEN free_fn(m, names[i]) ELSE m, entries[i])
             ELSE IF names[i] # NULL THEN free_fn(m, names[i]) ELSE m,
             names, entries, i + 1)

\* print_object after the names and the entries were printed as e
print_object_compose(table, ntab, e, depth, fmt) ==
    LET failed(mm) ==
            free_fn(free_fn(free_members(mm, e.names, e.entries, 1), ntab.p), table.p)
        composed(out) == [m |-> failed(out.m), p |-> out.p]
    IN  IF e.fail THEN [m |-> failed(e.m), p |-> NULL]
        ELSE composed(malloc_fn(e.m,
                 Buffer(<<Ch.lbrace>> \o (IF fmt THEN <<Ch.lf>> ELSE <<>>)
                        \o compose_object(e.m.heap, e.names, e.entries, 1,
                                          depth + 1, fmt),
                        7 + (IF fmt THEN depth + 1 ELSE 0)
                          + entries_len(e.m.heap, e.entries, 1)
                          + entries_len(e.m.heap, e.names, 1)
                          + Len(e.entries)
                              * (2 + (IF fmt THEN 2 + depth + 1 ELSE 0)))))

\* print_object after the entries table and the names table were allocated
print_object_tables(table, ntab, child, depth, fmt) ==
    IF table.p = NULL THEN [m |-> table.m, p |-> NULL]
    ELSE IF ntab.p = NULL THEN [m |-> free_fn(ntab.m, table.p), p |-> NULL]
    ELSE print_object_compose(table, ntab,
             print_object_entries(ntab.m, child, depth + 1, fmt, <<>>, <<>>),
             depth, fmt)

\* the names table is asked for only when the entries table was given
print_object_names(table, numentries) ==
    IF table.p = NULL THEN table
    ELSE malloc_fn(table.m, [kind |-> "table", size |-> numentries])

print_object(m, item, depth, fmt) ==
    IF m.heap[item].child = NULL
    THEN malloc_fn(m, Buffer(<<Ch.lbrace>>
                             \o (IF fmt THEN <<Ch.lf>> \o tabs(depth) ELSE <<>>)
                             \o <<Ch.rbrace>>,
                             IF fmt THEN depth + 4 ELSE 3))
    ELSE print_object_tables(
             malloc_fn(m, [kind |-> "table",
                           size |-> chain_length(m.heap, m.heap[item].child)]),
             print_object_names(
                 malloc_fn(m, [kind |-> "table",
                               size |-> chain_length(m.heap, m.heap[item].child)]),
                 chain_length(m.heap, m.heap[item].child)),
             m.heap[item].child, depth, fmt)

\* print_value with p = NULL
print_value(m, item, depth, fmt) ==
    IF item = NULL THEN [m |-> m, p |-> NULL]
    ELSE IF m.heap[item].type = "NULL" THEN cJSON_strdup(m, Lit.null)
    ELSE IF m.heap[item].type = "False" THEN cJSON_strdup(m, Lit.false)
    ELSE IF m.heap[item].type = "True" THEN cJSON_strdup(m, Lit.true)
    ELSE IF m.heap[item].type = "Number" THEN print_number(m, item)
    ELSE IF m.heap[item].type = "String" THEN print_string(m, item)
    ELSE IF m.heap[item].type = "Array" THEN print_array(m, item, depth, fmt)
    ELSE IF m.heap[item].type = "Object" THEN print_object(m, item, depth, fmt)
    ELSE [m |-> m, p |-> NULL]

cJSON_Print(m, item) == print_value(m, item, 0, TRUE)

cJSON_PrintUnformatted(m, item) == print_value(m, item, 0, FALSE)

(***************************************************************************)
(* The print buffer                                                        *)
(*                                                                         *)
(* A printbuffer is [buffer, length, offset].  The storage of a buffer is  *)
(* a block whose bytes has one entry per byte, Garbage where nothing has   *)
(* been written.  A char * into it is [buffer, offset]; NoPtr is NULL.     *)
(***************************************************************************)
Ptr(buffer, offset) == [buffer |-> buffer, offset |-> offset]

NoPtr == Ptr(NULL, 0)

\* an unsigned value of the width of size_t
size_t(m, x) == x % (2 ^ m.bits)

\* malloc_fn(size): size bytes, none of them written
malloc_bytes(m, size) == malloc_fn(m, Buffer([i \in 1..size |-> Garbage], size))

\* the bytes of a block after s is written from offset on; a write past the
\* end of the block shows as bytes beyond its size
stored(bytes, offset, s) ==
    [i \in 1..Max(Len(bytes), offset + Len(s)) |->
        IF i > offset /\ i <= offset + Len(s) THEN s[i - offset]
        ELSE IF i <= Len(bytes) THEN bytes[i] ELSE Garbage]

\* *ptr++ = c for each byte of s, starting at out
poke(m, out, s) == [m EXCEPT !.heap[out.buffer].bytes = stored(@, out.offset, s)]

\* strcpy(out, s): the bytes of s and the terminator
strcpy(m, out, s) == poke(m, out, s \o <<0>>)

\* strlen of the text that starts at offset str of the block
RECURSIVE strlen(_, _)
strlen(bytes, str) ==
    IF str < Len(bytes) /\ bytes[str + 1] # 0 THEN 1 + strlen(bytes, str + 1) ELSE 0

\* a growth that copies nothing into the new storage
ensure_grown_blank(r, p, newsize) ==
    IF r.p = NULL
    THEN [m |-> free_fn(r.m, p.buffer),
          pb |-> [p EXCEPT !.length = 0, !.buffer = NULL], out |-> NoPtr]
    ELSE [m |-> free_fn(r.m, p.buffer),
          pb |-> [p EXCEPT !.length = newsize, !.buffer = r.p],
          out |-> Ptr(r.p, p.offset)]

\* a growth that on a failed allocation leaves the printbuffer as it was
ensure_grown_kept(r, p, newsize) ==
    IF r.p = NULL THEN [m |-> r.m, pb |-> p, out |-> NoPtr]
    ELSE [m |-> free_fn(poke(r.m, Ptr(r.p, 0),
                             SubSeq(r.m.heap[p.buffer].bytes, 1, p.length)),
                        p.buffer),
          pb |-> [p EXCEPT !.length = newsize, !.buffer = r.p],
          out |-> Ptr(r.p, p.offset)]

\* the second half of ensure, r being what malloc_fn(newsize) returned
ensure_grown(r, p, newsize) ==
    IF r.p = NULL
    THEN [m |-> free_fn(r.m, p.buffer),
          pb |-> [p EXCEPT !.length = 0, !.buffer = NULL], out |-> NoPtr]
    ELSE [m |-> free_fn(poke(r.m, Ptr(r.p, 0),
                             SubSeq(r.m.heap[p.buffer].bytes, 1, p.length)),
                        p.buffer),
          pb |-> [p EXCEPT !.length = newsize, !.buffer = r.p],
          out |-> Ptr(r.p, p.offset)]

\* [m, pb, out]: the machine, the printbuffer and the pointer returned
ensure(m, p, needed) ==
    LET sized(newsize, need) ==
            IF newsize <= need THEN [m |-> m, pb |-> p, out |-> NoPtr]
            ELSE ensure_grown(malloc_bytes(m, newsize), p, newsize)
        summed(need) ==
            IF need <= p.length
            THEN [m |-> m, pb |-> p, out |-> Ptr(p.buffer, p.offset)]
            ELSE sized(size_t(m, Max(p.length, need) * 2), need)
    IN  IF p.buffer = NULL THEN [m |-> m, pb |-> p, out |-> NoPtr]
        ELSE summed(size_t(m, needed + p.offset))

update(m, p) ==
    IF p.buffer = NULL THEN 0
    ELSE size_t(m, p.offset + strlen(m.heap[p.buffer].bytes, p.offset))

(***************************************************************************)
(* Printing into a print buffer                                            *)
(*                                                                         *)
(* The branches of the printing functions that are taken when p is not     *)
(* NULL.  Each takes the machine and the printbuffer and yields            *)
(* [m, pb, out]; in the loops out is the local ptr, NoPtr once a failed    *)
(* ensure has made the function return NULL.                               *)
(***************************************************************************)
\* if (out) strcpy(out, s)
written(e, s) == IF e.out = NoPtr THEN e ELSE [e EXCEPT !.m = strcpy(@, e.out, s)]

\* *ptr++ = c for each byte of s, then p->offset += n
advanced(e, s, n) ==
    [m |-> poke(e.m, e.out, s),
     pb |-> [e.pb EXCEPT !.offset = size_t(e.m, @ + n)],
     out |-> e.out]

\* a call whose result is dropped, with p->offset left where it was
print_child_stale(r, ptr) == [m |-> r.m, pb |-> r.pb, out |-> ptr]

\* a call whose result is dropped, then p->offset = update(p); ptr stays
print_child(r, ptr) ==
    [m |-> r.m, pb |-> [r.pb EXCEPT !.offset = update(r.m, r.pb)], out |-> ptr]

\* the text print_number renders and the size it asks for are those of the
\* branch without a printbuffer; str comes from ensure
print_number_buffered(m, p, item) ==
    LET rendered(r) == written(ensure(m, p, r.m.heap[r.p].size), r.m.heap[r.p].bytes)
    IN  rendered(print_number([m EXCEPT !.failAt = 0], item))

\* likewise print_string_ptr, out coming from ensure
print_string_ptr_buffered(m, p, str) ==
    LET rendered(r) == written(ensure(m, p, r.m.heap[r.p].size), r.m.heap[r.p].bytes)
    IN  rendered(print_string_ptr([m EXCEPT !.failAt = 0], str))

RECURSIVE print_value_buffered(_, _, _, _, _)
RECURSIVE print_array_children(_, _, _, _)
RECURSIVE print_object_members(_, _, _, _)

\* the while (child && !fail) loop of print_array
print_array_children(s, child, depth, fmt) ==
    LET next == s.m.heap[child].next
        len == IF fmt THEN 2 ELSE 1
        separated(e) ==
            IF e.out = NoPtr THEN e
            ELSE print_array_children(
                     advanced(e, <<Ch.comma>> \o (IF fmt THEN <<Ch.sp>> ELSE <<>>) \o <<0>>,
                              len),
                     next, depth, fmt)
        printed(r) == IF next = NULL THEN r ELSE separated(ensure(r.m, r.pb, len + 1))
    IN  IF child = NULL THEN s
        ELSE printed(print_child(print_value_buffered(s.m, s.pb, child, depth + 1, fmt),
                                 s.out))

print_array_buffered(m, p, item, depth, fmt) ==
    LET closed(e) ==
            IF e.out = NoPtr THEN e
            ELSE [m |-> poke(e.m, e.out, <<Ch.rbrack, 0>>), pb |-> e.pb,
                  out |-> Ptr(e.pb.buffer, p.offset)]
        composed(s) == IF s.out = NoPtr THEN s ELSE closed(ensure(s.m, s.pb, 2))
        opened(e) ==
            IF e.out = NoPtr THEN e
            ELSE composed(print_array_children(advanced(e, <<Ch.lbrack>>, 1),
                                               m.heap[item].child, depth, fmt))
    IN  IF m.heap[item].child = NULL
        THEN written(ensure(m, p, 3), <<Ch.lbrack, Ch.rbrack>>)
        ELSE opened(ensure(m, p, 1))

\* the while (child) loop of print_object; depth is the incremented depth
print_object_members(s, child, depth, fmt) ==
    LET next == s.m.heap[child].next
        len == IF fmt THEN 2 ELSE 1
        clen == (IF fmt THEN 1 ELSE 0) + (IF next # NULL THEN 1 ELSE 0)
        ended(e) ==
            IF e.out = NoPtr THEN e
            ELSE print_object_members(
                     advanced(e, (IF next # NULL THEN <<Ch.comma>> ELSE <<>>)
                                     \o (IF fmt THEN <<Ch.lf>> ELSE <<>>) \o <<0>>,
                              clen),
                     next, depth, fmt)
        valued(r) == ended(ensure(r.m, r.pb, clen + 1))
        value_at(a) ==
            valued(print_child(print_value_buffered(a.m, a.pb, child, depth, fmt), a.out))
        coloned(e) ==
            IF e.out = NoPtr THEN e
            ELSE value_at(advanced(e, <<Ch.colon>> \o (IF fmt THEN <<Ch.tab>> ELSE <<>>),
                                   len))
        keyed(r) == coloned(ensure(r.m, r.pb, len))
        named(t) ==
            keyed(print_child(print_string_ptr_buffered(t.m, t.pb, t.m.heap[child].name),
                              t.out))
        indented(e) ==
            IF e.out = NoPtr THEN e
            ELSE named(IF fmt THEN advanced(e, tabs(depth), depth) ELSE e)
    IN  IF child = NULL THEN s
        ELSE indented(IF fmt THEN ensure(s.m, s.pb, depth) ELSE s)

\* after its last loop i is depth - 1 when fmt, else the offset on entry
print_object_buffered(m, p, item, depth, fmt) ==
    LET len == IF fmt THEN 2 ELSE 1
        closed(e) ==
            IF e.out = NoPtr THEN e
            ELSE [m |-> poke(e.m, e.out,
                             (IF fmt THEN tabs(depth) ELSE <<>>) \o <<Ch.rbrace, 0>>),
                  pb |-> e.pb,
                  out |-> Ptr(e.pb.buffer, IF fmt THEN depth ELSE p.offset)]
        composed(s) ==
            IF s.out = NoPtr THEN s
            ELSE closed(ensure(s.m, s.pb, IF fmt THEN depth + 2 ELSE 2))
        opened(e) ==
            IF e.out = NoPtr THEN e
            ELSE composed(print_object_members(
                              advanced(e, <<Ch.lbrace>>
                                              \o (IF fmt THEN <<Ch.lf>> ELSE <<>>) \o <<0>>,
                                       len),
                              m.heap[item].child, depth + 1, fmt))
    IN  IF m.heap[item].child = NULL
        THEN written(ensure(m, p, IF fmt THEN depth + 4 ELSE 3),
                     <<Ch.lbrace>> \o (IF fmt THEN <<Ch.lf>> \o tabs(depth) ELSE <<>>)
                         \o <<Ch.rbrace>>)
        ELSE opened(ensure(m, p, len + 1))

print_value_buffered(m, p, item, depth, fmt) ==
    IF item = NULL THEN [m |-> m, pb |-> p, out |-> NoPtr]
    ELSE IF m.heap[item].type = "NULL" THEN written(ensure(m, p, 5), Lit.null)
    ELSE IF m.heap[item].type = "False" THEN written(ensure(m, p, 6), Lit.false)
    ELSE IF m.heap[item].type = "True" THEN written(ensure(m, p, 5), Lit.true)
    ELSE IF m.heap[item].type = "Number" THEN print_number_buffered(m, p, item)
    ELSE IF m.heap[item].type = "String"
    THEN print_string_ptr_buffered(m, p, value_string(m.heap[item]))
    ELSE IF m.heap[item].type = "Array" THEN print_array_buffered(m, p, item, depth, fmt)
    ELSE IF m.heap[item].type = "Object" THEN print_object_buffered(m, p, item, depth, fmt)
    ELSE [m |-> m, pb |-> p, out |-> NoPtr]

cJSON_PrintBuffered(m, item, prebuffer, fmt) ==
    LET started(r) ==
            IF r.p = NULL THEN [m |-> r.m, pb |-> NoBuffer, out |-> NoPtr]
            ELSE print_value_buffered(r.m, [buffer |-> r.p, length |-> prebuffer,
                                            offset |-> 0],
                                      item, 0, fmt)
    IN  started(malloc_bytes(m, prebuffer))

(***************************************************************************)
(* Construction and mutation of trees                                      *)
(***************************************************************************)
\* cJSON_New_Item, then item->type = type
create_typed(n, type) ==
    IF n.p = NULL THEN n ELSE [m |-> [n.m EXCEPT !.heap[n.p].type = type], p |-> n.p]

internal_cJSON_CreateNull(m) == create_typed(cJSON_New_Item(m), "NULL")

\* num: the double, as value.as and value.v hold it
internal_cJSON_CreateNumber(m, num) ==
    LET made(n) ==
            IF n.p = NULL THEN n
            ELSE [m |-> [n.m EXCEPT !.heap[n.p].type = "Number",
                                    !.heap[n.p].value = num],
                  p |-> n.p]
    IN  made(cJSON_New_Item(m))

internal_cJSON_CreateArray(m) == create_typed(cJSON_New_Item(m), "Array")

internal_cJSON_CreateObject(m) == create_typed(cJSON_New_Item(m), "Object")

suffix_object(m, prev, item) == [m EXCEPT !.heap[prev].next = item]

\* while (c->next) c = c->next
RECURSIVE last_sibling(_, _)
last_sibling(h, c) == IF h[c].next # NULL THEN last_sibling(h, h[c].next) ELSE c

\* a copy of the record that is not marked as a reference
create_reference_owned(m, item) ==
    LET made(n) ==
            IF n.p = NULL THEN n
            ELSE [n EXCEPT !.m.heap[n.p] =
                      [n.m.heap[item] EXCEPT !.name = NULL, !.next = NULL]]
    IN  made(cJSON_New_Item(m))

\* memcpy(ref, item, sizeof(cJSON)); the copy is a reference with no key and
\* no sibling
create_reference(m, item) ==
    LET made(n) ==
            IF n.p = NULL THEN n
            ELSE [n EXCEPT !.m.heap[n.p] =
                      [n.m.heap[item] EXCEPT !.name = NULL,
                                             !.is_reference = TRUE,
                                             !.next = NULL]]
    IN  made(cJSON_New_Item(m))

cJSON_AddItemToArray(m, array, item) ==
    IF item = NULL THEN m
    ELSE IF m.heap[array].child = NULL THEN [m EXCEPT !.heap[array].child = item]
    ELSE suffix_object(m, last_sibling(m.heap, m.heap[array].child), item)

\* if (item->name) free_fn(item->name); item->name = cJSON_strdup(name)
cJSON_AddItemToObject(m, object, name, item) ==
    IF item = NULL THEN m
    ELSE LET named(d) ==
                 cJSON_AddItemToArray([d.m EXCEPT !.heap[item].name = d.p], object, item)
         IN  named(cJSON_strdup(IF m.heap[item].name # NULL
                                THEN free_fn(m, m.heap[item].name) ELSE m,
                                name))

\* name is the address of the caller's constant string
cJSON_AddItemToObjectCS(m, object, name, item) ==
    IF item = NULL THEN m
    ELSE cJSON_AddItemToArray(
             [(IF ~m.heap[item].string_is_const /\ m.heap[item].name # NULL
               THEN free_fn(m, m.heap[item].name) ELSE m)
                 EXCEPT !.heap[item].name = name,
                        !.heap[item].string_is_const = TRUE],
             object, item)

cJSON_AddItemReferenceToArray(m, array, item) ==
    LET added(r) == cJSON_AddItemToArray(r.m, array, r.p)
    IN  added(create_reference(m, item))

cJSON_AddItemReferenceToObject(m, object, name, item) ==
    LET added(r) == cJSON_AddItemToObject(r.m, object, name, r.p)
    IN  added(create_reference(m, item))

\* while (c && (which > 0)): [c, previous]
RECURSIVE seek(_, _, _, _)
seek(h, c, previous, which) ==
    IF c # NULL /\ which > 0 THEN seek(h, h[c].next, c, which - 1)
    ELSE [c |-> c, previous |-> previous]

\* array->child = item for the first element, previous->next = item for another
relink(m, array, at, item) ==
    IF at.c = m.heap[array].child THEN [m EXCEPT !.heap[array].child = item]
    ELSE [m EXCEPT !.heap[at.previous].next = item]

\* [m, p]: p is the item detached, NULL when there is none at which
\* a detach that leaves the next link of the item as it was
cJSON_DetachItemFromArray_linked(m, array, which) ==
    LET at == seek(m.heap, m.heap[array].child, NULL, which)
    IN  IF at.c = NULL THEN [m |-> m, p |-> NULL]
        ELSE [m |-> relink(m, array, at, m.heap[at.c].next), p |-> at.c]

cJSON_DetachItemFromArray(m, array, which) ==
    LET at == seek(m.heap, m.heap[array].child, NULL, which)
    IN  IF at.c = NULL THEN [m |-> m, p |-> NULL]
        ELSE [m |-> [relink(m, array, at, m.heap[at.c].next) EXCEPT
                        !.heap[at.c].next = NULL],
              p |-> at.c]

\* an insertion that ignores the index
cJSON_InsertItemInArray_last(m, array, which, newitem) ==
    cJSON_AddItemToArray(m, array, newitem)

cJSON_InsertItemInArray(m, array, which, newitem) ==
    LET at == seek(m.heap, m.heap[array].child, NULL, which)
    IN  IF at.c = NULL THEN cJSON_AddItemToArray(m, array, newitem)
        ELSE relink([m EXCEPT !.heap[newitem].next = at.c], array, at, newitem)

internal_cJSON_ReplaceItemInArray(m, array, which, newitem) ==
    LET at == seek(m.heap, m.heap[array].child, NULL, which)
    IN  IF at.c = NULL THEN m
        ELSE internal_cJSON_Delete(
                 [relink([m EXCEPT !.heap[newitem].next = m.heap[at.c].next],
                         array, at, newitem)
                     EXCEPT !.heap[at.c].next = NULL],
                 at.c)

\* while (c && strcmp(c->name, name)): [c, i]
RECURSIVE seek_name(_, _, _, _)
seek_name(h, c, name, i) ==
    IF c # NULL /\ h[h[c].name].bytes # name THEN seek_name(h, h[c].next, name, i + 1)
    ELSE [c |-> c, i |-> i]

internal_cJSON_ReplaceItemInObject(m, object, name, newitem) ==
    LET named(d) ==
            internal_cJSON_ReplaceItemInArray(
                [d.m EXCEPT !.heap[newitem].name = d.p], object,
                seek_name(m.heap, m.heap[object].child, name, 0).i, newitem)
    IN  IF seek_name(m.heap, m.heap[object].child, name, 0).c = NULL THEN m
        ELSE named(cJSON_strdup(
                 IF ~m.heap[newitem].string_is_const /\ m.heap[newitem].name # NULL
                 THEN free_fn(m, m.heap[newitem].name) ELSE m,
                 name))

RECURSIVE internal_cJSON_Duplicate(_, _, _)
RECURSIVE duplicate_children(_, _, _, _)

\* one round of the loop over the children, after the child at cptr was
\* duplicated as d; nptr is the last child linked so far
duplicate_child(newitem, nptr, cptr, d) ==
    IF d.p = NULL THEN [m |-> internal_cJSON_Delete(d.m, newitem), p |-> NULL]
    ELSE duplicate_children(
             IF nptr # NULL THEN [d.m EXCEPT !.heap[nptr].next = d.p]
             ELSE [d.m EXCEPT !.heap[newitem].child = d.p],
             newitem, d.p, d.m.heap[cptr].next)

\* a walk that copies no child
duplicate_children_none(m, newitem, nptr, cptr) == [m |-> m, p |-> newitem]

\* "Walk the ->next chain for the child"
duplicate_children(m, newitem, nptr, cptr) ==
    IF cptr = NULL THEN [m |-> m, p |-> newitem]
    ELSE duplicate_child(newitem, nptr, cptr, internal_cJSON_Duplicate(m, cptr, TRUE))

\* after the name was copied as k, when the item has one
duplicate_named(item, recurse, newitem, k) ==
    IF k.m.heap[item].name # NULL /\ k.p = NULL
    THEN [m |-> internal_cJSON_Delete(k.m, newitem), p |-> NULL]
    ELSE IF ~recurse
    THEN [m |-> [k.m EXCEPT !.heap[newitem].name = k.p], p |-> newitem]
    ELSE duplicate_children([k.m EXCEPT !.heap[newitem].name = k.p], newitem, NULL,
                            k.m.heap[item].child)

\* after the string was copied as s, when the item has one
duplicate_valued(item, recurse, newitem, has_string, s) ==
    IF has_string /\ s.p = NULL
    THEN [m |-> internal_cJSON_Delete(s.m, newitem), p |-> NULL]
    ELSE duplicate_named(item, recurse, newitem,
             IF s.m.heap[item].name # NULL
             THEN cJSON_strdup(
                      IF has_string
                      THEN [s.m EXCEPT !.heap[newitem].value =
                                           [as |-> "string", v |-> s.p]]
                      ELSE s.m,
                      s.m.heap[s.m.heap[item].name].bytes)
             ELSE [m |-> IF has_string
                         THEN [s.m EXCEPT !.heap[newitem].value =
                                              [as |-> "string", v |-> s.p]]
                         ELSE s.m,
                   p |-> NULL])

\* "Copy over all vars", n being the new item
duplicate_item(item, recurse, n) ==
    IF n.p = NULL THEN [m |-> n.m, p |-> NULL]
    ELSE IF n.m.heap[item].type = "String" /\ value_string(n.m.heap[item]) # NULL
    THEN duplicate_valued(item, recurse, n.p, TRUE,
             cJSON_strdup([n.m EXCEPT !.heap[n.p].type = "String",
                                      !.heap[n.p].value = [as |-> "string", v |-> NULL]],
                          n.m.heap[value_string(n.m.heap[item])].bytes))
    ELSE duplicate_valued(item, recurse, n.p, FALSE,
             [m |-> [n.m EXCEPT
                        !.heap[n.p].type = n.m.heap[item].type,
                        !.heap[n.p].value =
                            IF n.m.heap[item].type \in {"Number", "True", "False"}
                            THEN n.m.heap[item].value
                            ELSE [as |-> "string", v |-> NULL]],
              p |-> NULL])

internal_cJSON_Duplicate(m, item, recurse) ==
    IF item = NULL THEN [m |-> m, p |-> NULL]
    ELSE duplicate_item(item, recurse, cJSON_New_Item(m))

(***************************************************************************)
(* cJSON_Minify, on the memory that holds the text, its terminator and the *)
(* bytes that follow it.  A step yields the memory, the highest index read *)
(* and the highest index written.                                          *)
(***************************************************************************)
\* *p; past the bytes the model holds the memory reads as zero
At(mem, p) == IF p \in 1..Len(mem) THEN mem[p] ELSE 0

\* *into = c
Store(s, into, c) ==
    [s EXCEPT !.mem = IF into \in 1..Len(@) THEN [@ EXCEPT ![into] = c] ELSE @,
              !.whi = Max(@, into)]

\* while (*json && (*json != '\n')) json++
RECURSIVE minify_line(_, _)
minify_line(mem, json) ==
    IF At(mem, json) # 0 /\ At(mem, json) # Ch.lf THEN minify_line(mem, json + 1)
    ELSE json

\* while (*json && !((*json == '*') && (json[1] == '/'))) json++
RECURSIVE minify_block(_, _)
minify_block(mem, json) ==
    IF At(mem, json) # 0 /\ ~(At(mem, json) = 42 /\ At(mem, json + 1) = Ch.slash)
    THEN minify_block(mem, json + 1)
    ELSE json

\* a copy loop that takes the quote after a backslash for the end of the literal
RECURSIVE minify_string_plain(_, _, _)
minify_string_plain(s, json, into) ==
    IF At(s.mem, json) # 0 /\ At(s.mem, json) # Ch.quote
    THEN minify_string_plain(Store(s, into, At(s.mem, json)), json + 1, into + 1)
    ELSE [s |-> [Store(s, into, At(s.mem, json)) EXCEPT !.hi = Max(@, json)],
          json |-> json + 1, into |-> into + 1]

\* the loop that copies a string literal after its opening quote: [s, json, into]
RECURSIVE minify_string(_, _, _)
minify_string(s, json, into) ==
    IF At(s.mem, json) # 0 /\ At(s.mem, json) # Ch.quote
    THEN IF At(s.mem, json) = Ch.bslash
         THEN minify_string(
                  Store(Store([s EXCEPT !.hi = Max(@, json + 1)], into, Ch.bslash),
                        into + 1, At(s.mem, json + 1)),
                  json + 2, into + 2)
         ELSE minify_string(Store(s, into, At(s.mem, json)), json + 1, into + 1)
    ELSE [s |-> [Store(s, into, At(s.mem, json)) EXCEPT !.hi = Max(@, json)],
          json |-> json + 1, into |-> into + 1]

\* while (*json): the state when the loop is left, after *into = 0
RECURSIVE minify_loop(_, _, _)
minify_loop(s, json, into) ==
    LET c == At(s.mem, json)
        c1 == At(s.mem, json + 1)
        read(n) == [s EXCEPT !.hi = Max(@, n)]
        copied(r) == minify_loop(r.s, r.json, r.into)
    IN  IF c = 0 THEN Store(read(json), into, 0)
        ELSE IF c \in {Ch.sp, Ch.tab, Ch.cr, Ch.lf} THEN minify_loop(read(json), json + 1, into)
        ELSE IF c = Ch.slash /\ c1 = Ch.slash
        THEN minify_loop(read(minify_line(s.mem, json)), minify_line(s.mem, json), into)
        ELSE IF c = Ch.slash /\ c1 = 42
        THEN minify_loop(read(IF At(s.mem, minify_block(s.mem, json)) = 0
                              THEN minify_block(s.mem, json)
                              ELSE minify_block(s.mem, json) + 1),
                         minify_block(s.mem, json) + 2, into)
        ELSE IF c = Ch.quote
        THEN copied(minify_string(Store(read(json), into, c), json + 1, into + 1))
        ELSE minify_loop(Store(read(IF c = Ch.slash THEN json + 1 ELSE json), into, c),
                         json + 1, into + 1)

cJSON_Minify(mem) == minify_loop([mem |-> mem, hi |-> 0, whi |-> 0], 1, 1)

(***************************************************************************)
(* What a tree is, apart from where it is stored                           *)
(***************************************************************************)
\* the addresses of the chain that starts at c, in next order
RECURSIVE chain(_, _)
chain(h, c) == IF c = NULL THEN <<>> ELSE <<c>> \o chain(h, h[c].next)

KeyOf(h, n) ==
    IF h[n].name = NULL THEN [absent |-> TRUE, bytes |-> <<>>]
    ELSE [absent |-> FALSE, bytes |-> h[h[n].name].bytes]

RECURSIVE TreeOf(_, _)
TreeOf(h, n) ==
    [type     |-> h[n].type,
     key      |-> KeyOf(h, n),
     number   |-> IF h[n].type = "Number" THEN value_number(h[n]) ELSE 0,
     string   |-> IF h[n].type = "String" /\ value_string(h[n]) # NULL
                  THEN h[value_string(h[n])].bytes ELSE <<>>,
     children |-> LET c == chain(h, h[n].child)
                  IN  [i \in 1..Len(c) |-> TreeOf(h, c[i])]]

(***************************************************************************)
(* The interchange grammar, as a recogniser: for a value that starts at    *)
(* index i, the index just after it, and 0 when no value starts there      *)
(***************************************************************************)
RECURSIVE grammar_ws(_, _)
grammar_ws(t, i) ==
    IF i # 0 /\ Byte(t, i) >= 1 /\ Byte(t, i) <= 32 THEN grammar_ws(t, i + 1) ELSE i

IsHex(c) == HexDigit(c) >= 0

RECURSIVE grammar_chars(_, _)
grammar_chars(t, i) ==
    LET c == Byte(t, i)
        e == Byte(t, i + 1)
    IN  IF c = 0 THEN 0
        ELSE IF c = Ch.quote THEN i + 1
        ELSE IF c # Ch.bslash THEN grammar_chars(t, i + 1)
        ELSE IF e \in {Ch.quote, Ch.bslash, Ch.slash, Ch.b, Ch.f, Ch.n, Ch.r, Ch.t}
        THEN grammar_chars(t, i + 2)
        ELSE IF e = Ch.u /\ \A k \in 2..5 : IsHex(Byte(t, i + k))
        THEN grammar_chars(t, i + 6)
        ELSE 0

grammar_string(t, i) == IF Byte(t, i) = Ch.quote THEN grammar_chars(t, i + 1) ELSE 0

RECURSIVE grammar_digits(_, _)
grammar_digits(t, i) == IF IsDigit(Byte(t, i)) THEN grammar_digits(t, i + 1) ELSE i

grammar_number(t, i) ==
    LET d == IF Byte(t, i) = Ch.minus THEN i + 1 ELSE i
    IN  IF grammar_digits(t, d) = d THEN 0 ELSE grammar_digits(t, d)

IsPrefixAt(t, i, lit) == \A k \in 1..Len(lit) : Byte(t, i + k - 1) = lit[k]

RECURSIVE grammar_value(_, _)
RECURSIVE grammar_elements(_, _)
RECURSIVE grammar_members(_, _)

grammar_value(t, i) ==
    IF i = 0 THEN 0
    ELSE IF IsPrefixAt(t, i, Lit.null) THEN i + 4
    ELSE IF IsPrefixAt(t, i, Lit.false) THEN i + 5
    ELSE IF IsPrefixAt(t, i, Lit.true) THEN i + 4
    ELSE IF Byte(t, i) = Ch.quote THEN grammar_string(t, i)
    ELSE IF Byte(t, i) = Ch.minus \/ IsDigit(Byte(t, i)) THEN grammar_number(t, i)
    ELSE IF Byte(t, i) = Ch.lbrack
    THEN LET j == grammar_ws(t, i + 1)
         IN  IF Byte(t, j) = Ch.rbrack THEN j + 1 ELSE grammar_elements(t, j)
    ELSE IF Byte(t, i) = Ch.lbrace
    THEN LET j == grammar_ws(t, i + 1)
         IN  IF Byte(t, j) = Ch.rbrace THEN j + 1 ELSE grammar_members(t, j)
    ELSE 0

grammar_elements(t, i) ==
    LET j == grammar_ws(t, grammar_value(t, i))
    IN  IF j = 0 THEN 0
        ELSE IF Byte(t, j) = Ch.comma THEN grammar_elements(t, grammar_ws(t, j + 1))
        ELSE IF Byte(t, j) = Ch.rbrack THEN j + 1
        ELSE 0

grammar_members(t, i) ==
    LET k == grammar_ws(t, grammar_string(t, i))
        j == grammar_ws(t, grammar_value(t, grammar_ws(t, k + 1)))
    IN  IF k = 0 \/ Byte(t, k) # Ch.colon THEN 0
        ELSE IF j = 0 THEN 0
        ELSE IF Byte(t, j) = Ch.comma THEN grammar_members(t, grammar_ws(t, j + 1))
        ELSE IF Byte(t, j) = Ch.rbrace THEN j + 1
        ELSE 0

\* where the first value of the text ends, 0 when the text starts with no value
FirstValueEnd(t) == grammar_value(t, grammar_ws(t, 1))

\* the whole text is one value between optional whitespace
WellFormed(t) ==
    FirstValueEnd(t) # 0 /\ grammar_ws(t, FirstValueEnd(t)) = Len(t) + 1

(***************************************************************************)
(* String literals by the book: UTF-16 escapes to UTF-8 (RFC 2781, 3629)   *)
(***************************************************************************)
UTF8(cp) ==
    IF cp < 128 THEN <<cp>>
    ELSE IF cp < 2048 THEN <<192 + (cp \div 64), 128 + (cp % 64)>>
    ELSE IF cp < 65536
    THEN <<224 + (cp \div 4096), 128 + ((cp \div 64) % 64), 128 + (cp % 64)>>
    ELSE <<240 + (cp \div 262144), 128 + ((cp \div 4096) % 64),
           128 + ((cp \div 64) % 64), 128 + (cp % 64)>>

Quartet(t, i) ==
    ((HexDigit(Byte(t, i)) * 16 + HexDigit(Byte(t, i + 1))) * 16
        + HexDigit(Byte(t, i + 2))) * 16 + HexDigit(Byte(t, i + 3))

IsQuartet(t, i) == \A k \in 0..3 : IsHex(Byte(t, i + k))

\* the literal whose opening quote is at i - 1, read from index i on:
\* status "ok" with the decoded bytes, "bad" with the index at which the
\* invalid escape sequence starts, or "open" when the input ends first
RECURSIVE RefString(_, _, _)
RefString(t, i, out) ==
    LET c  == Byte(t, i)
        e  == Byte(t, i + 1)
        hi_ == Quartet(t, i + 2)
        lo == Quartet(t, i + 8)
        bad == [status |-> "bad", bytes |-> out, at |-> i]
        simple == (Ch.quote :> Ch.quote) @@ (Ch.bslash :> Ch.bslash)
                  @@ (Ch.slash :> Ch.slash) @@ (Ch.b :> Ch.bs) @@ (Ch.f :> Ch.ff)
                  @@ (Ch.n :> Ch.lf) @@ (Ch.r :> Ch.cr) @@ (Ch.t :> Ch.tab)
    IN  IF c = 0 THEN [status |-> "open", bytes |-> out, at |-> i]
        ELSE IF c = Ch.quote THEN [status |-> "ok", bytes |-> out, at |-> i]
        ELSE IF c # Ch.bslash THEN RefString(t, i + 1, Append(out, c))
        ELSE IF e = 0 THEN [status |-> "open", bytes |-> out, at |-> i]
        ELSE IF e \in DOMAIN simple THEN RefString(t, i + 2, Append(out, simple[e]))
        ELSE IF e # Ch.u \/ ~IsQuartet(t, i + 2) THEN bad
        ELSE IF hi_ = 0 \/ (hi_ >= 56320 /\ hi_ <= 57343) THEN bad
        ELSE IF hi_ < 55296 \/ hi_ > 56319
        THEN RefString(t, i + 6, out \o UTF8(hi_))
        ELSE IF Byte(t, i + 6) = Ch.bslash /\ Byte(t, i + 7) = Ch.u
                /\ IsQuartet(t, i + 8) /\ lo >= 56320 /\ lo <= 57343
        THEN RefString(t, i + 12,
                 out \o UTF8(65536 + (hi_ - 55296) * 1024 + (lo - 56320)))
        ELSE bad

(***************************************************************************)
(* The calls of the host                                                   *)
(***************************************************************************)
\* a pointer into a text, NullPos for NULL
NullPos == [text |-> <<>>, off |-> NULL]

Pos(t, i) == IF i = NULL THEN NullPos ELSE [text |-> t, off |-> i]

NoCall == [op |-> "none", n |-> 0]

\* cJSON_ParseWithOpts(value, return_parse_end, require_null_terminated) on the
\* text t; src is 0 for the host's text and else the buffer that holds t
ParseStep(t, src, item, value, has_return_parse_end, require_null_terminated, failAt) ==
    LET returned(r) ==
            /\ heap' = r.m.heap
            /\ live' = r.m.live
            /\ freed' = r.m.freed
            /\ ret' = r.c
            /\ global_ep' = IF has_return_parse_end THEN global_ep ELSE Pos(t, r.ep)
            /\ return_parse_end' = IF has_return_parse_end THEN Pos(t, r.ep)
                                   ELSE return_parse_end
            /\ hi' = r.m.hi
            /\ roots' = IF r.c # NULL THEN roots \cup {r.c} ELSE roots
            /\ call' = [op |-> "ParseWithOpts", n |-> call.n + 1, src |-> src,
                        item |-> item, value |-> value,
                        has_return_parse_end |-> has_return_parse_end,
                        require_null_terminated |-> require_null_terminated,
                        failAt |-> failAt]
    IN  returned(cJSON_ParseWithOpts(t, value, Machine(heap, live, freed, failAt),
                                     has_return_parse_end, require_null_terminated))

\* the host parses its text
ParseText(o) ==
    /\ call.op = "none"
    /\ ParseStep(text, 0, NULL, o.value, o.has_return_parse_end,
                 o.require_null_terminated, o.failAt)
    /\ UNCHANGED <<text, container, printbuffer, threads>>

\* the host serializes the tree the parser just returned
PrintUnformatted ==
    /\ call.op = "ParseWithOpts" /\ call.src = 0 /\ ret # NULL
    /\ LET returned(r) ==
               /\ heap' = r.m.heap
               /\ live' = r.m.live
               /\ freed' = r.m.freed
               /\ ret' = r.p
       IN  returned(cJSON_PrintUnformatted(Machine(heap, live, freed, 0), ret))
    /\ call' = [op |-> "PrintUnformatted", n |-> call.n + 1, item |-> ret]
    /\ UNCHANGED <<text, global_ep, return_parse_end, hi, roots, container, printbuffer, threads>>

\* the host parses the text it just serialized
ParsePrinted ==
    /\ call.op = "PrintUnformatted" /\ ret # NULL
    /\ ParseStep(heap[ret].bytes, ret, call.item, 1, FALSE, TRUE, 0)
    /\ UNCHANGED <<text, container, printbuffer, threads>>

(***************************************************************************)
(* Input texts                                                             *)
(***************************************************************************)
MaxDepth == 2
MaxFailAt == 2

RECURSIVE Flatten(_)
Flatten(ss) == IF ss = <<>> THEN <<>> ELSE Head(ss) \o Flatten(Tail(ss))

\* what may stand where a value is expected
Atoms ==
    { Lit.null, Lit.true, Lit.false,
      <<Ch.d0>>, <<Ch.minus, Ch.d0 + 1, Ch.d0 + 2>>, <<Ch.minus>>,
      <<Ch.quote, Ch.a, Ch.quote>>, <<Ch.quote, Ch.a>>,
      \* "\"\n\u0001" followed by the two bytes of U+00E9
      <<Ch.quote, Ch.bslash, Ch.quote, Ch.bslash, Ch.n, Ch.bslash, Ch.u, Ch.d0, Ch.d0,
        Ch.d0, Ch.d0 + 1, 195, 169, Ch.quote>>,
      <<Ch.lbrack, Ch.rbrack>>, <<Ch.lbrace, Ch.sp, Ch.rbrace>>,
      <<Ch.n, Ch.u, Ch.t>>, <<>> }

\* an enclosing array or object up to the place of one value, and its closer
Openers ==
    { [open |-> <<Ch.lbrack>>, close |-> Ch.rbrack],
      [open |-> <<Ch.lbrack, Ch.d0 + 1, Ch.comma, Ch.sp>>, close |-> Ch.rbrack],
      [open |-> <<Ch.lbrace, Ch.sp, Ch.quote, Ch.a, Ch.quote, Ch.sp, Ch.colon, Ch.sp>>,
       close |-> Ch.rbrace],
      [open |-> <<Ch.lbrace, Ch.quote, Ch.a, Ch.quote, Ch.colon, Ch.d0 + 1, Ch.comma,
                  Ch.quote, Ch.bslash, Ch.t, Ch.b, Ch.quote, Ch.colon>>,
       close |-> Ch.rbrace],
      [open |-> <<Ch.lbrace>>, close |-> Ch.rbrace],
      [open |-> <<Ch.lbrace, Ch.quote, Ch.a, Ch.quote>>, close |-> Ch.rbrace] }

\* the closers of the context ctx, innermost first, without the one at omit
Closers(ctx, omit) ==
    LET d == Len(ctx)
        kept == SelectSeq([i \in 1..d |-> d + 1 - i], LAMBDA i : i # omit)
    IN  [k \in 1..Len(kept) |-> ctx[kept[k]].close]

Inserts == { <<>>, <<Ch.comma>>, <<Ch.rbrack>> }

Trailers == { <<>>, <<Ch.sp, Ch.lf>>, <<Ch.sp, Ch.A>> }

\* at most one of: a byte inserted after the value, a closer left out, a trailer
Defects(d) ==
    { [ins |-> i, omit |-> 0, trail |-> <<>>] : i \in Inserts }
    \cup { [ins |-> <<>>, omit |-> k, trail |-> <<>>] : k \in 1..d }
    \cup { [ins |-> <<>>, omit |-> 0, trail |-> tr] : tr \in Trailers }

StructTexts ==
    UNION { { Flatten([i \in 1..d |-> ctx[i].open]) \o atom \o x.ins
                  \o Closers(ctx, x.omit) \o x.trail :
              ctx \in [1..d -> Openers], atom \in Atoms, x \in Defects(d) } :
            d \in 0..MaxDepth }

ParseOptions ==
    { [value |-> 1, has_return_parse_end |-> s, require_null_terminated |-> r,
       failAt |-> 0] : s \in BOOLEAN, r \in BOOLEAN }
    \cup { [value |-> 1, has_return_parse_end |-> FALSE,
            require_null_terminated |-> FALSE, failAt |-> k] : k \in 1..MaxFailAt }

\* an absent text is the NULL pointer
AbsentOptions ==
    { [value |-> NULL, has_return_parse_end |-> s, require_null_terminated |-> FALSE,
       failAt |-> 0] : s \in BOOLEAN }

InitMemory ==
    /\ heap = <<>> /\ live = {} /\ freed = <<>>
    /\ call = NoCall /\ ret = NULL
    /\ global_ep = NullPos /\ return_parse_end = NullPos
    /\ printbuffer = NoBuffer /\ threads = <<>>
    /\ hi = 0 /\ roots = {} /\ container = NULL

Init == InitMemory /\ text \in StructTexts

Next ==
    \/ \E o \in ParseOptions : ParseText(o)
    \/ \E o \in AbsentOptions : text = <<>> /\ ParseText(o)
    \/ PrintUnformatted
    \/ ParsePrinted

Spec == Init /\ [][Next]_vars

(***************************************************************************)
(* String literals as input: escapes of every kind, closed or cut off, as  *)
(* a value, as an array element and as an object key                       *)
(***************************************************************************)
MaxItems == 2

StringItems ==
    { <<97>>,  \* a
      <<92, 110>>,  \* \n
      <<92, 34>>,  \* \"
      <<92, 120>>,  \* \x, no escape character
      <<92, 117, 48, 48, 52, 49>>,  \* \u0041
      <<92, 117, 48, 48, 56, 48>>,  \* \u0080
      <<92, 117, 48, 55, 102, 102>>,  \* \u07ff
      <<92, 117, 48, 56, 48, 48>>,  \* \u0800
      <<92, 117, 100, 55, 102, 102>>,  \* \ud7ff
      <<92, 117, 101, 48, 48, 48>>,  \* \ue000
      <<92, 117, 102, 102, 102, 102>>,  \* \uffff
      <<92, 117, 100, 56, 51, 100, 92, 117, 100, 101, 48, 48>>,  \* \ud83d\ude00
      <<92, 117, 68, 66, 70, 70, 92, 117, 68, 70, 70, 70>>,  \* \uDBFF\uDFFF
      <<92, 117, 100, 56, 51, 100>>,  \* \ud83d, a high surrogate
      <<92, 117, 100, 101, 48, 48>>,  \* \ude00, a low surrogate
      <<92, 117, 48, 48, 48, 48>>,  \* \u0000
      <<92, 117, 48, 48, 103, 49>>,  \* \u00g1
      <<92, 117, 48, 48>> }  \* \u00, cut short

\* the bodies of up to n items
RECURSIVE StringBodies(_)
StringBodies(n) ==
    IF n = 0 THEN { <<>> }
    ELSE StringBodies(n - 1)
         \cup { b \o x : b \in StringBodies(n - 1), x \in StringItems }

\* closed by its quote, cut off, or cut off right after a backslash
StringEndings == { <<Ch.quote>>, <<>>, <<Ch.bslash>> }

StringLiterals ==
    { <<Ch.quote>> \o b \o e : b \in StringBodies(MaxItems), e \in StringEndings }

StringTexts ==
    StringLiterals
    \cup { <<Ch.sp, Ch.lbrack>> \o l \o <<Ch.rbrack>> : l \in StringLiterals }
    \cup { <<Ch.lbrace>> \o l \o <<Ch.colon, Ch.d0, Ch.rbrace>> : l \in StringLiterals }

StringOptions ==
    { [value |-> 1, has_return_parse_end |-> s, require_null_terminated |-> FALSE,
       failAt |-> 0] : s \in BOOLEAN }

StringInit == InitMemory /\ text \in StringTexts

StringNext == \E o \in StringOptions : ParseText(o)

StringSpec == StringInit /\ [][StringNext]_vars

(***************************************************************************)
(* A host that builds and changes trees.  The items it passes to the       *)
(* mutation primitives are items it holds that are attached to no parent.  *)
(***************************************************************************)
MaxNodes == 4
MaxWhich == 3
MaxHeap == 6

Memory == Machine(heap, live, freed, 0)

\* the memory after a call that ran to the machine state m
Returned(m) == heap' = m.heap /\ live' = m.live /\ freed' = m.freed

CreateArray(max) ==
    /\ container = NULL /\ Len(heap) < max
    /\ LET created(r) == Returned(r.m) /\ ret' = r.p /\ container' = r.p
       IN  created(internal_cJSON_CreateArray(Memory))
    /\ call' = [op |-> "CreateArray", n |-> call.n]
    /\ UNCHANGED <<text, global_ep, return_parse_end, hi, roots, printbuffer, threads>>

CreateObject(max) ==
    /\ container = NULL /\ Len(heap) < max
    /\ LET created(r) == Returned(r.m) /\ ret' = r.p /\ container' = r.p
       IN  created(internal_cJSON_CreateObject(Memory))
    /\ call' = [op |-> "CreateObject", n |-> call.n]
    /\ UNCHANGED <<text, global_ep, return_parse_end, hi, roots, printbuffer, threads>>

CreateNull(max) ==
    /\ Len(heap) < max
    /\ LET created(r) == Returned(r.m) /\ ret' = r.p /\ roots' = roots \cup {r.p}
       IN  created(internal_cJSON_CreateNull(Memory))
    /\ call' = [op |-> "CreateNull", n |-> call.n]
    /\ UNCHANGED <<text, global_ep, return_parse_end, hi, container, printbuffer, threads>>

\* item may be NULL
AddItemToArray(item) ==
    /\ container # NULL
    /\ Returned(cJSON_AddItemToArray(Memory, container, item))
    /\ roots' = roots \ {item}
    /\ ret' = NULL
    /\ call' = [op |-> "AddItemToArray", n |-> call.n, item |-> item]
    /\ UNCHANGED <<text, global_ep, return_parse_end, hi, container, printbuffer, threads>>

InsertItemInArray(which, newitem) ==
    /\ container # NULL
    /\ Returned(cJSON_InsertItemInArray(Memory, container, which, newitem))
    /\ roots' = roots \ {newitem}
    /\ ret' = NULL
    /\ call' = [op |-> "InsertItemInArray", n |-> call.n, which |-> which,
                item |-> newitem]
    /\ UNCHANGED <<text, global_ep, return_parse_end, hi, container, printbuffer, threads>>

DetachItemFromArray(which) ==
    /\ container # NULL
    /\ LET detached(r) ==
               /\ Returned(r.m) /\ ret' = r.p
               /\ roots' = IF r.p # NULL THEN roots \cup {r.p} ELSE roots
       IN  detached(cJSON_DetachItemFromArray(Memory, container, which))
    /\ call' = [op |-> "DetachItemFromArray", n |-> call.n, which |-> which]
    /\ UNCHANGED <<text, global_ep, return_parse_end, hi, container, printbuffer, threads>>

\* when there is no item at which, the host still holds newitem
ReplaceItemInArray(which, newitem) ==
    /\ container # NULL
    /\ Returned(internal_cJSON_ReplaceItemInArray(Memory, container, which, newitem))
    /\ roots' = IF which < chain_length(heap, heap[container].child)
                THEN roots \ {newitem} ELSE roots
    /\ ret' = NULL
    /\ call' = [op |-> "ReplaceItemInArray", n |-> call.n, which |-> which,
                item |-> newitem]
    /\ UNCHANGED <<text, global_ep, return_parse_end, hi, container, printbuffer, threads>>

TreeInit == InitMemory /\ text = <<>>

TreeNext ==
    \/ CreateArray(MaxNodes)
    \/ CreateObject(MaxNodes)
    \/ CreateNull(MaxNodes)
    \/ \E item \in roots \cup {NULL} : AddItemToArray(item)
    \/ \E which \in 0..MaxWhich, item \in roots : InsertItemInArray(which, item)
    \/ \E which \in 0..MaxWhich : DetachItemFromArray(which)
    \/ \E which \in 0..MaxWhich, item \in roots : ReplaceItemInArray(which, item)

TreeSpec == TreeInit /\ [][TreeNext]_vars

(***************************************************************************)
(* A host that builds objects, with keys the tree copies and with constant *)
(* keys of its own that the tree only borrows                              *)
(***************************************************************************)
\* the constant strings of the host: k and l
StaticKeys == << [kind |-> "static", bytes |-> <<107>>],
                 [kind |-> "static", bytes |-> <<108>>] >>

\* the name the host passes by value: n
Names == { <<110>> }

\* the failAt-th allocation of the call fails
AddItemToObject(name, item, failAt, max) ==
    /\ container # NULL /\ Len(heap) < max
    /\ Returned(cJSON_AddItemToObject(Machine(heap, live, freed, failAt), container,
                                      name, item))
    /\ roots' = roots \ {item}
    /\ ret' = NULL
    /\ call' = [op |-> "AddItemToObject", n |-> call.n, name |-> name, item |-> item,
                failAt |-> failAt]
    /\ UNCHANGED <<text, global_ep, return_parse_end, hi, container, printbuffer, threads>>

\* name is the address of one of the host's constant strings
AddItemToObjectCS(name, item) ==
    /\ container # NULL
    /\ Returned(cJSON_AddItemToObjectCS(Memory, container, name, item))
    /\ roots' = roots \ {item}
    /\ ret' = NULL
    /\ call' = [op |-> "AddItemToObjectCS", n |-> call.n, name |-> name, item |-> item]
    /\ UNCHANGED <<text, global_ep, return_parse_end, hi, container, printbuffer, threads>>

\* when no member has the name, the host still holds newitem
ReplaceItemInObject(name, newitem, max) ==
    /\ container # NULL /\ Len(heap) < max
    /\ Returned(internal_cJSON_ReplaceItemInObject(Memory, container, name, newitem))
    /\ roots' = IF seek_name(heap, heap[container].child, name, 0).c # NULL
                THEN roots \ {newitem} ELSE roots
    /\ ret' = NULL
    /\ call' = [op |-> "ReplaceItemInObject", n |-> call.n, name |-> name,
                item |-> newitem]
    /\ UNCHANGED <<text, global_ep, return_parse_end, hi, container, printbuffer, threads>>

\* cJSON_Duplicate of the container or of an item the host holds; the copy is
\* an item the host holds; the failAt-th allocation of the call fails
Duplicate(item, recurse, failAt, max) ==
    /\ item # NULL
    /\ LET copied(r) ==
               /\ Len(r.m.heap) <= max
               /\ Returned(r.m) /\ ret' = r.p
               /\ roots' = IF r.p # NULL THEN roots \cup {r.p} ELSE roots
       IN  copied(internal_cJSON_Duplicate(Machine(heap, live, freed, failAt),
                                           item, recurse))
    /\ call' = [op |-> "Duplicate", n |-> call.n, item |-> item, recurse |-> recurse,
                failAt |-> failAt]
    /\ UNCHANGED <<text, global_ep, return_parse_end, hi, container, printbuffer, threads>>

\* cJSON_Delete of the container or of an item the host holds
Delete(c) ==
    /\ c # NULL
    /\ Returned(internal_cJSON_Delete(Memory, c))
    /\ roots' = roots \ {c}
    /\ container' = IF c = container THEN NULL ELSE container
    /\ ret' = NULL
    /\ call' = [op |-> "Delete", n |-> call.n, item |-> c]
    /\ UNCHANGED <<text, global_ep, return_parse_end, hi, printbuffer, threads>>

KeyInit ==
    /\ heap = StaticKeys /\ live = {} /\ freed = <<>>
    /\ call = NoCall /\ ret = NULL
    /\ global_ep = NullPos /\ return_parse_end = NullPos
    /\ printbuffer = NoBuffer /\ threads = <<>>
    /\ hi = 0 /\ roots = {} /\ container = NULL
    /\ text = <<>>

KeyNext ==
    \/ CreateObject(MaxHeap)
    \/ CreateNull(MaxHeap)
    \/ \E name \in Names, item \in roots : AddItemToObject(name, item, 0, MaxHeap)
    \/ \E name \in DOMAIN StaticKeys, item \in roots : AddItemToObjectCS(name, item)
    \/ \E which \in 0..1 : DetachItemFromArray(which)
    \/ \E name \in Names \cup {<<107>>}, item \in roots :
           ReplaceItemInObject(name, item, MaxHeap)
    \/ \E item \in roots \cup {container}, recurse \in BOOLEAN :
           Duplicate(item, recurse, 0, MaxHeap)
    \/ \E c \in roots \cup {container} : Delete(c)

KeySpec == KeyInit /\ [][KeyNext]_vars

(***************************************************************************)
(* C1  Round trip.  When the host has parsed a well-formed text, serialized *)
(* the tree it got in compact mode and parsed that serialization, the      *)
(* second parse succeeds and its tree is deep-equal to the first: same     *)
(* kinds, keys, string values, numbers and child order at every level.     *)
(***************************************************************************)
Reparsed == call.op = "ParseWithOpts" /\ call.src # 0

RoundTrip ==
    (Reparsed /\ WellFormed(text))
        => (ret # NULL /\ TreeOf(heap, ret) = TreeOf(heap, call.item))

\* an object was round-tripped whose second member, under an escaped key,
\* is an array that holds a string with escapes
RoundTripWitness ==
    /\ Reparsed /\ WellFormed(text) /\ ret # NULL
    /\ TreeOf(heap, call.item).type = "Object"
    /\ Len(TreeOf(heap, call.item).children) = 2
    /\ TreeOf(heap, call.item).children[2].key.bytes = <<Ch.tab, Ch.b>>
    /\ TreeOf(heap, call.item).children[2].type = "Array"
    /\ \E i \in 1..Len(TreeOf(heap, call.item).children[2].children) :
           TreeOf(heap, call.item).children[2].children[i].string
               = <<Ch.quote, Ch.lf, 1, 195, 169>>

(***************************************************************************)
(* The first string literal of a text                                      *)
(***************************************************************************)
\* where the first string literal of t opens, 0 when t has none
RECURSIVE FirstQuote(_, _)
FirstQuote(t, i) ==
    IF i > Len(t) THEN 0 ELSE IF t[i] = Ch.quote THEN i ELSE FirstQuote(t, i + 1)

FirstLiteral(t) == RefString(t, FirstQuote(t, 1) + 1, <<>>)

\* the host's text was parsed, and no allocation was made to fail
ParsedText ==
    call.op = "ParseWithOpts" /\ call.src = 0 /\ call.value # NULL /\ call.failAt = 0

(***************************************************************************)
(* C2  Unterminated string.  When the text ends before the closing quote   *)
(* of a string literal (a value or a key), or right after an unescaped     *)
(* backslash in it, the parse returns absence, and it reads no byte beyond *)
(* the terminating NUL of the text.                                        *)
(***************************************************************************)
Unterminated(t) == FirstQuote(t, 1) # 0 /\ FirstLiteral(t).status = "open"

UnterminatedStringFails ==
    (ParsedText /\ Unterminated(text)) => (ret = NULL /\ hi <= Len(text) + 1)

\* the part of C2 that the code keeps: no read beyond the terminating NUL
UnterminatedStringInBounds ==
    (ParsedText /\ Unterminated(text)) => hi <= Len(text) + 1

(***************************************************************************)
(* C3  Hard failure of arrays and objects.  When the text opens an array   *)
(* or an object that is not well-formed - a trailing comma, an element, a  *)
(* key or a ':' that does not parse, or a closing delimiter that is        *)
(* missing, at any depth - the parse call returns absence, and every block *)
(* it allocated on the way was released exactly once: the caller receives  *)
(* no partial tree.                                                        *)
(***************************************************************************)
\* the host's text was parsed, with or without a failing allocation
ParsedAnyhow == call.op = "ParseWithOpts" /\ call.src = 0 /\ call.value # NULL

Structured(t) == Byte(t, grammar_ws(t, 1)) \in {Ch.lbrack, Ch.lbrace}

\* every block ever allocated was released, each one once
TornDown == live = {} /\ Len(freed) = Len(heap)

NoPartialTree ==
    (ParsedAnyhow /\ Structured(text) /\ FirstValueEnd(text) = 0)
        => (ret = NULL /\ TornDown)

\* [{ "a" : 0,}] failed: a trailing comma at depth 2, after three items were built
NoPartialTreeWitness ==
    /\ ParsedAnyhow /\ call.failAt = 0
    /\ text = <<Ch.lbrack, Ch.lbrace, Ch.sp, Ch.quote, Ch.a, Ch.quote, Ch.sp, Ch.colon,
                Ch.sp, Ch.d0, Ch.comma, Ch.rbrace, Ch.rbrack>>
    /\ ret = NULL /\ TornDown /\ Len(heap) >= 4

(***************************************************************************)
(* C4  Full consumption.  For a text that starts with a well-formed value: *)
(* with require_null_terminated set the parse succeeds exactly when only   *)
(* bytes <= 0x20 follow the value, and otherwise it returns absence, tears *)
(* the tree down and leaves in the slot in use the position of the first   *)
(* non-whitespace trailing byte; with it unset the parse succeeds whatever *)
(* follows, and a caller-supplied slot holds the position of the byte      *)
(* right after the value.                                                  *)
(***************************************************************************)
\* the position slot the most recent parse call reported to
SlotInUse == IF call.has_return_parse_end THEN return_parse_end ELSE global_ep

FullConsumption ==
    (ParsedText /\ FirstValueEnd(text) # 0)
        => LET end == FirstValueEnd(text)
               rest == grammar_ws(text, end)
           IN  IF ~call.require_null_terminated
               THEN /\ ret # NULL
                    /\ call.has_return_parse_end => return_parse_end = Pos(text, end)
               ELSE IF rest = Len(text) + 1 THEN ret # NULL
               ELSE ret = NULL /\ TornDown /\ SlotInUse = Pos(text, rest)

\* [1, {"a":1,"\tb":0}] followed by " A" was refused at the A, into the
\* caller's slot, after the whole tree was built
FullConsumptionWitness ==
    /\ ParsedText /\ call.require_null_terminated /\ call.has_return_parse_end
    /\ FirstValueEnd(text) = Len(text) - 1
    /\ Byte(text, 1) = Ch.lbrack /\ Byte(text, 5) = Ch.lbrace
    /\ text[Len(text)] = Ch.A
    /\ ret = NULL /\ TornDown /\ Len(heap) >= 8
    /\ return_parse_end = Pos(text, Len(text))

(***************************************************************************)
(* A host that parses one text after another                               *)
(***************************************************************************)
MaxCalls == 3

\* 1, 1 followed by " A", a lone -, [1,] and "\x"
SeqTexts ==
    { <<Ch.d0 + 1>>, <<Ch.d0 + 1, Ch.sp, Ch.A>>, <<Ch.minus>>,
      <<Ch.lbrack, Ch.d0 + 1, Ch.comma, Ch.rbrack>>,
      <<Ch.quote, Ch.bslash, Ch.x, Ch.quote>> }

\* the host parses the text t, whatever it parsed before
ParseAgain(t, has_return_parse_end, require_null_terminated) ==
    /\ call.n < MaxCalls
    /\ text' = t
    /\ ParseStep(t, 0, NULL, 1, has_return_parse_end, require_null_terminated, 0)
    /\ UNCHANGED <<container, printbuffer, threads>>

SeqInit == InitMemory /\ text = <<>>

SeqNext == \E t \in SeqTexts, s \in BOOLEAN, r \in BOOLEAN : ParseAgain(t, s, r)

SeqSpec == SeqInit /\ [][SeqNext]_vars

(***************************************************************************)
(* C5  Error accessor.  After any sequence of parse calls, each with or    *)
(* without a slot of the caller, cJSON_GetErrorPtr returns NULL when the   *)
(* most recent call succeeded, and otherwise a position inside the text of *)
(* the most recent call.                                                   *)
(***************************************************************************)
cJSON_GetErrorPtr == global_ep

ErrorAccessor ==
    call.op = "ParseWithOpts"
        => IF ret # NULL THEN cJSON_GetErrorPtr = NullPos
           ELSE /\ cJSON_GetErrorPtr.text = text
                /\ cJSON_GetErrorPtr.off \in 1..(Len(text) + 1)

\* the accessor holds what the most recent call without a slot of its own left
\* behind, which is the weaker statement the code keeps
ErrorAccessorShared ==
    (call.op = "ParseWithOpts" /\ ~call.has_return_parse_end /\ ret # NULL)
        => cJSON_GetErrorPtr = NullPos

(***************************************************************************)
(* C6  Malformed input.  For every malformed text - one that does not      *)
(* start with a well-formed value, or that is absent - and with no         *)
(* allocation failing, the parse returns absence and the slot in use for   *)
(* the call holds a position, one that lies inside the text.               *)
(***************************************************************************)
Malformed == call.value = NULL \/ FirstValueEnd(text) = 0

MalformedRecorded ==
    (call.op = "ParseWithOpts" /\ call.src = 0 /\ call.failAt = 0 /\ Malformed)
        => /\ ret = NULL
           /\ SlotInUse # NullPos
           /\ SlotInUse.text = text
           /\ SlotInUse.off \in 1..(Len(text) + 1)

(***************************************************************************)
(* C7  Escapes.  A literal whose escapes are all valid - simple escapes,   *)
(* nonzero quartets outside D800..DFFF, and high surrogates each followed  *)
(* at once by a low surrogate - parses to the bytes of the standard UTF-8  *)
(* encoding of its code points, a pair standing for                        *)
(* 0x10000 + (hi - 0xD800) * 0x400 + (lo - 0xDC00); a literal with a lone  *)
(* low surrogate, an unpaired high surrogate, a zero quartet, a truncated  *)
(* or non-hex quartet or an unknown escape character makes the parse       *)
(* return absence.                                                         *)
(***************************************************************************)
\* the keys and the string values of a tree, parents before children
RECURSIVE TreeStrings(_)
TreeStrings(tr) ==
    (IF tr.key.absent THEN <<>> ELSE <<tr.key.bytes>>)
    \o (IF tr.type = "String" THEN <<tr.string>> ELSE <<>>)
    \o Flatten([i \in 1..Len(tr.children) |-> TreeStrings(tr.children[i])])

EscapesDecoded ==
    (ParsedText /\ FirstQuote(text, 1) # 0)
        => /\ FirstLiteral(text).status = "bad" => ret = NULL
           /\ (FirstLiteral(text).status = "ok" /\ WellFormed(text))
                  => /\ ret # NULL
                     /\ TreeStrings(TreeOf(heap, ret)) = <<FirstLiteral(text).bytes>>

\* "\ud83d\ude00\u07ff" gave F0 9F 98 80 DF BF
EscapesDecodedWitness ==
    /\ ParsedText /\ ret # NULL
    /\ text = <<Ch.quote, Ch.bslash, Ch.u, 100, 56, 51, 100,
                Ch.bslash, Ch.u, 100, 101, 48, 48,
                Ch.bslash, Ch.u, 48, 55, 102, 102, Ch.quote>>
    /\ TreeOf(heap, ret).string = <<240, 159, 152, 128, 223, 191>>

(***************************************************************************)
(* C8  Position of an invalid escape.  When a literal holds an invalid     *)
(* escape or surrogate sequence, the position recorded in the slot in use  *)
(* is that of the first character of the offending sequence, its           *)
(* backslash.                                                              *)
(***************************************************************************)
InvalidEscapePosition ==
    (ParsedText /\ FirstQuote(text, 1) # 0 /\ FirstLiteral(text).status = "bad")
        => SlotInUse = Pos(text, FirstLiteral(text).at)

\* what the code records instead: where the literal opens
InvalidEscapeAtQuote ==
    (ParsedText /\ FirstQuote(text, 1) # 0 /\ FirstLiteral(text).status = "bad"
       /\ SlotInUse # NullPos)
        => SlotInUse = Pos(text, FirstQuote(text, 1))

(***************************************************************************)
(* C9  The child chain is a sequence.  Every append, insert, detach and    *)
(* replace call with an unattached item changes the child chain of the     *)
(* container as the matching operation changes a sequence: append adds at  *)
(* the tail; insert puts the item before index which, or at the tail when  *)
(* which is out of range; detach removes the element at which and returns  *)
(* it with its next link cleared, or returns NULL and changes nothing when *)
(* which is out of range; replace puts the item in the place of the        *)
(* element at which, or changes nothing when which is out of range.        *)
(***************************************************************************)
\* the sequence s without its element at the 0-based index i
Without(s, i) == SubSeq(s, 1, i) \o SubSeq(s, i + 2, Len(s))

\* the sequence s with x put before its element at the 0-based index i
WithBefore(s, i, x) == SubSeq(s, 1, i) \o <<x>> \o SubSeq(s, i + 1, Len(s))

SequenceStep ==
    LET s == chain(heap, heap[container].child)
        s2 == chain(heap', heap'[container'].child)
        c == call'
    IN  /\ c.op = "AddItemToArray"
              => s2 = IF c.item = NULL THEN s ELSE Append(s, c.item)
        /\ c.op = "InsertItemInArray"
              => s2 = IF c.which < Len(s) THEN WithBefore(s, c.which, c.item)
                      ELSE Append(s, c.item)
        /\ c.op = "DetachItemFromArray"
              => IF c.which < Len(s)
                 THEN /\ s2 = Without(s, c.which)
                      /\ ret' = s[c.which + 1]
                      /\ heap'[ret'].next = NULL
                 ELSE s2 = s /\ ret' = NULL
        /\ c.op = "ReplaceItemInArray"
              => s2 = IF c.which < Len(s) THEN [s EXCEPT ![c.which + 1] = c.item]
                      ELSE s

ChainIsSequence == [][SequenceStep]_vars

\* three items were appended in the order 2, 3, 4 and the one at index 1 was
\* detached: it is the middle one, and the other two are linked directly
ChainIsSequenceWitness ==
    /\ call.op = "DetachItemFromArray" /\ call.which = 1
    /\ container = 1
    /\ ret = 3 /\ heap[3].next = NULL
    /\ heap[1].child = 2 /\ heap[2].next = 4 /\ heap[4].next = NULL
    /\ roots = {3} /\ freed = <<>>

(***************************************************************************)
(* C10  Borrowed keys.  A key that was stored through                      *)
(* cJSON_AddItemToObjectCS belongs to the host: whatever the host does     *)
(* later with the item or its tree - delete it, detach the item and add it *)
(* again under a copied or a constant key, replace a member by name,       *)
(* duplicate - free_fn is never called on that key.                        *)
(***************************************************************************)
ConstKeyNeverFreed ==
    \A i \in 1..Len(freed) : heap[freed[i]].kind # "static"

(***************************************************************************)
(* What a tree owns                                                        *)
(***************************************************************************)
\* the blocks owned by the items of the chain that starts at c: the node
\* records, and for an item that is no reference its string and the blocks
\* of its children, and every key that came from the allocator
RECURSIVE OwnedBy(_, _)
OwnedBy(h, c) ==
    IF c = NULL THEN {}
    ELSE {c}
         \cup (IF h[c].is_reference THEN {}
               ELSE OwnedBy(h, h[c].child)
                    \cup (IF h[c].type = "String" /\ value_string(h[c]) # NULL
                          THEN {value_string(h[c])} ELSE {}))
         \cup (IF h[c].name # NULL /\ h[h[c].name].kind = "buf"
               THEN {h[c].name} ELSE {})
         \cup OwnedBy(h, h[c].next)

\* how many times free_fn was called on the address a
TimesFreed(f, a) == Cardinality({i \in 1..Len(f) : f[i] = a})

(***************************************************************************)
(* C11  Teardown releases what the tree owns.  Whatever constructors and   *)
(* mutation primitives built a tree, cJSON_Delete of it releases every     *)
(* node record, every string of a node that is no reference and every key  *)
(* that the tree allocated, each exactly once: after the call none of them *)
(* is allocated and free_fn was called on none of them twice.              *)
(***************************************************************************)
TeardownStep ==
    call'.op = "Delete"
        => \A a \in OwnedBy(heap, call'.item) :
               a \notin live' /\ TimesFreed(freed', a) = 1

TeardownReleasesAll == [][TeardownStep]_vars

(***************************************************************************)
(* A host that parses a tree and builds a second one that holds references *)
(* to elements of the first, items with constant keys and copies           *)
(***************************************************************************)
MaxBuild == 10
MaxItemHeap == 11
MaxCopy == 18
MaxCopyFail == 8

\* {"k":["s"]}
RefTexts ==
    { <<Ch.lbrace, Ch.quote, 107, Ch.quote, Ch.colon, Ch.lbrack,
        Ch.quote, 115, Ch.quote, Ch.rbrack, Ch.rbrace>> }

\* every node of the chain at c and below it
RECURSIVE NodesOf(_, _)
NodesOf(h, c) ==
    IF c = NULL THEN {}
    ELSE {c} \cup NodesOf(h, h[c].child) \cup NodesOf(h, h[c].next)

Held == UNION { NodesOf(heap, r) : r \in roots }

\* item is an element of a tree the host holds
AddItemReferenceToArray(item, max) ==
    /\ container # NULL /\ Len(heap) < max
    /\ Returned(cJSON_AddItemReferenceToArray(Memory, container, item))
    /\ ret' = NULL
    /\ call' = [op |-> "AddItemReferenceToArray", n |-> call.n, item |-> item]
    /\ UNCHANGED <<text, global_ep, return_parse_end, hi, roots, container, printbuffer, threads>>

AddItemReferenceToObject(name, item, max) ==
    /\ container # NULL /\ Len(heap) + 1 < max
    /\ Returned(cJSON_AddItemReferenceToObject(Memory, container, name, item))
    /\ ret' = NULL
    /\ call' = [op |-> "AddItemReferenceToObject", n |-> call.n, name |-> name,
                item |-> item]
    /\ UNCHANGED <<text, global_ep, return_parse_end, hi, roots, container, printbuffer, threads>>

RefOptions ==
    { [value |-> 1, has_return_parse_end |-> FALSE,
       require_null_terminated |-> FALSE, failAt |-> 0] }

RefInit ==
    /\ heap = StaticKeys /\ live = {} /\ freed = <<>>
    /\ call = NoCall /\ ret = NULL
    /\ global_ep = NullPos /\ return_parse_end = NullPos
    /\ printbuffer = NoBuffer /\ threads = <<>>
    /\ hi = 0 /\ roots = {} /\ container = NULL
    /\ text \in RefTexts

RefNext ==
    \/ \E o \in RefOptions : ParseText(o)
    \/ CreateArray(MaxBuild)
    \/ CreateObject(MaxBuild)
    \/ \E item \in Held : AddItemReferenceToArray(item, MaxBuild)
    \/ \E name \in Names, item \in Held : AddItemReferenceToObject(name, item, MaxBuild)
    \/ \E c \in roots \cup {container} : Delete(c)

RefSpec == RefInit /\ [][RefNext]_vars

(***************************************************************************)
(* A host that copies the trees it built, with allocations that fail       *)
(***************************************************************************)
\* the host parses, builds, then copies once
Building == call.op \notin {"none", "Duplicate"}

CopyNext ==
    \/ \E o \in RefOptions : ParseText(o)
    \/ Building /\ CreateObject(MaxItemHeap)
    \/ Building /\ CreateNull(MaxItemHeap)
    \/ \E name \in DOMAIN StaticKeys, item \in roots :
           Building /\ AddItemToObjectCS(name, item)
    \/ \E item \in Held : Building /\ AddItemReferenceToArray(item, MaxItemHeap)
    \/ \E name \in Names, item \in Held :
           Building /\ AddItemReferenceToObject(name, item, MaxItemHeap)
    \/ \E item \in roots \cup {container}, recurse \in BOOLEAN, failAt \in 0..MaxCopyFail :
           Building /\ Duplicate(item, recurse, failAt, MaxCopy)

CopySpec == RefInit /\ [][CopyNext]_vars

(***************************************************************************)
(* C12  References.  When the host tears down a tree that holds reference  *)
(* nodes to elements of another tree, no node record and no buffer of any  *)
(* other tree the host holds is released; and every teardown, the later    *)
(* one of the referenced tree included, releases each node record and      *)
(* each buffer the torn-down tree owns exactly once.                       *)
(***************************************************************************)
OthersOwned ==
    UNION { OwnedBy(heap, r) : r \in ((roots \cup {container}) \ {NULL, call'.item}) }

ReferenceStep ==
    call'.op = "Delete"
        => /\ \A a \in OthersOwned : a \in live' /\ TimesFreed(freed', a) = 0
           /\ \A a \in OwnedBy(heap, call'.item) :
                  a \notin live' /\ TimesFreed(freed', a) = 1

ReferencesBorrow == [][ReferenceStep]_vars

FreedAt(a) == CHOOSE i \in 1..Len(freed) : freed[i] = a

\* both trees are torn down, the one with a reference to an array of the other
\* first; that array and its string were released once, by the second teardown
ReferencesBorrowWitness ==
    /\ call.op = "Delete" /\ live = {}
    /\ \E b \in DOMAIN heap :
           /\ heap[b].kind = "node" /\ heap[b].is_reference
           /\ heap[b].type = "Array" /\ heap[b].child # NULL
           /\ call.item # b
           /\ heap[b].child \in OwnedBy(heap, call.item)
           /\ FreedAt(b) < FreedAt(heap[b].child)
           /\ TimesFreed(freed, heap[b].child) = 1
           /\ TimesFreed(freed, value_string(heap[heap[b].child])) = 1

(***************************************************************************)
(* C13  Duplication.  A copy made with recurse set is equal to the         *)
(* original as a tree, is made of blocks the original does not use, and    *)
(* has no reference node and no borrowed key in it, also when the original *)
(* has some; a copy made with recurse clear is the node alone, with no     *)
(* child; and the call returns NULL when any of the allocations it needs   *)
(* fails.                                                                  *)
(***************************************************************************)
\* the blocks a walk of the tree at c reads, through references too
RECURSIVE BlocksOf(_, _, _)
BlocksOf(h, c, root) ==
    IF c = NULL THEN {}
    ELSE {c} \cup BlocksOf(h, h[c].child, FALSE)
         \cup (IF root THEN {} ELSE BlocksOf(h, h[c].next, FALSE))
         \cup (IF h[c].type = "String" /\ value_string(h[c]) # NULL
               THEN {value_string(h[c])} ELSE {})
         \cup (IF h[c].name # NULL THEN {h[c].name} ELSE {})

\* the allocations a copy of the tree t takes
RECURSIVE CopySize(_, _)
CopySize(t, recurse) ==
    LET RECURSIVE sum(_)
        sum(i) == IF i = 0 THEN 0 ELSE CopySize(t.children[i], TRUE) + sum(i - 1)
    IN  1 + (IF t.type = "String" THEN 1 ELSE 0)
          + (IF t.key.absent THEN 0 ELSE 1)
          + (IF recurse THEN sum(Len(t.children)) ELSE 0)

AllOwned(h, l, c) ==
    \A n \in NodesOf(h, c) :
        /\ n \in l /\ ~h[n].is_reference /\ ~h[n].string_is_const
        /\ h[n].name # NULL => h[n].name \in l /\ h[h[n].name].kind = "buf"
        /\ h[n].type = "String" => value_string(h[n]) \in l

DuplicateCopies ==
    call.op = "Duplicate" =>
        LET original == TreeOf(heap, call.item)
        IN  IF call.failAt \in 1..CopySize(original, call.recurse)
            THEN ret = NULL
            ELSE /\ ret # NULL
                 /\ BlocksOf(heap, ret, TRUE) \cap BlocksOf(heap, call.item, TRUE) = {}
                 /\ AllOwned(heap, live, ret)
                 /\ IF call.recurse
                    THEN TreeOf(heap, ret) = original
                    ELSE /\ heap[ret].child = NULL /\ heap[ret].next = NULL
                         /\ TreeOf(heap, ret) = [original EXCEPT !.children = <<>>]

\* a deep copy of an object with a reference to the parsed array and a
\* member with a borrowed key
DuplicateCopiesWitness ==
    /\ call.op = "Duplicate" /\ call.recurse /\ ret # NULL
    /\ \E n \in NodesOf(heap, heap[call.item].child) :
           heap[n].is_reference /\ heap[n].type = "Array" /\ heap[n].child # NULL
    /\ \E n \in NodesOf(heap, heap[call.item].child) :
           heap[n].string_is_const /\ heap[n].name # NULL

(***************************************************************************)
(* A host that parses a text and serializes the tree, formatted or not,    *)
(* with allocations that fail                                              *)
(***************************************************************************)
MaxPrints == 2
MaxPrintFail == 11

PrintTexts ==
    {
      \* [1,"a"]
      <<91, 49, 44, 34, 97, 34, 93>>,
      \* {"k":[1],"l":"a"}
      <<123, 34, 107, 34, 58, 91, 49, 93, 44, 34, 108, 34, 58, 34, 97, 34,
        125>>,
      \* [{"k":1},[]]
      <<91, 123, 34, 107, 34, 58, 49, 125, 44, 91, 93, 93>>,
      \* {"k":{"l":null},"m":{}}
      <<123, 34, 107, 34, 58, 123, 34, 108, 34, 58, 110, 117, 108, 108, 125,
        44, 34, 109, 34, 58, 123, 125, 125>>,
      \* [[true,2],{}]
      <<91, 91, 116, 114, 117, 101, 44, 50, 93, 44, 123, 125, 93>>,
      \* 7
      <<55>>,
      \* {"k :":["{ ,"]}
      <<123, 34, 107, 32, 58, 34, 58, 91, 34, 123, 32, 44, 34, 93, 125>>
    }

\* cJSON_Print when fmt, else cJSON_PrintUnformatted; the failAt-th
\* allocation of the call fails
PrintItem(item, fmt, failAt) ==
    /\ item # NULL /\ call.n <= MaxPrints
    /\ LET returned(r) == Returned(r.m) /\ ret' = r.p
       IN  returned(IF fmt THEN cJSON_Print(Machine(heap, live, freed, failAt), item)
                    ELSE cJSON_PrintUnformatted(Machine(heap, live, freed, failAt),
                                                item))
    /\ call' = [op |-> "Print", n |-> call.n + 1, item |-> item, fmt |-> fmt,
                failAt |-> failAt]
    /\ UNCHANGED <<text, global_ep, return_parse_end, hi, roots, container, printbuffer, threads>>

PrintInit == InitMemory /\ text \in PrintTexts

PrintNext ==
    \/ \E o \in RefOptions : ParseText(o)
    \/ \E item \in roots, fmt \in BOOLEAN, failAt \in 0..MaxPrintFail :
           PrintItem(item, fmt, failAt)

PrintSpec == PrintInit /\ [][PrintNext]_vars

(***************************************************************************)
(* C14  Serialization failure.  When the host serializes a tree without a  *)
(* buffer and one of the allocations the call needs fails, the call        *)
(* returns NULL and every block the call allocated has been released,      *)
(* once; the blocks that were allocated before the call stay as they were. *)
(***************************************************************************)
\* the allocations a serialization of the tree t takes
RECURSIVE PrintSize(_, _)
PrintSize(t, member) ==
    LET RECURSIVE sum(_)
        sum(i) == IF i = 0 THEN 0
                  ELSE PrintSize(t.children[i], t.type = "Object") + sum(i - 1)
    IN  (IF member THEN 1 ELSE 0)
        + (IF t.type \in {"Array", "Object"} /\ t.children # <<>>
           THEN (IF t.type = "Object" THEN 3 ELSE 2) + sum(Len(t.children))
           ELSE 1)

PrintFailureStep ==
    call'.op = "Print" =>
        /\ ret' = NULL <=> call'.failAt \in 1..PrintSize(TreeOf(heap, call'.item), FALSE)
        /\ ret' = NULL =>
               /\ live' = live
               /\ \A a \in (Len(heap) + 1)..Len(heap') : TimesFreed(freed', a) = 1
               /\ \A a \in 1..Len(heap) : TimesFreed(freed', a) = TimesFreed(freed, a)

PrintFailureReleases == [][PrintFailureStep]_vars

\* the output buffer of an object with members could not be allocated: its
\* two tables and the printed names and values were released
PrintFailureReleasesWitness ==
    /\ call.op = "Print" /\ ret = NULL
    /\ heap[call.item].type = "Object" /\ heap[call.item].child # NULL
    /\ call.failAt = PrintSize(TreeOf(heap, call.item), FALSE)
    /\ \E a, b \in DOMAIN heap :
           /\ heap[a].kind = "table" /\ heap[b].kind = "buf"
           /\ a > call.item /\ b > a
           /\ a \notin live /\ b \notin live

(***************************************************************************)
(* A host that parses texts, well formed or not, with allocations that     *)
(* fail, and deletes the tree it was given                                 *)
(***************************************************************************)
MaxParseFail == 8

\* texts that end early, that have a wrong byte at depth one and two, and
\* that have bytes after the value
BrokenTexts ==
    {
      \* [1,"a"
      <<91, 49, 44, 34, 97, 34>>,
      \* {"k":[1,}
      <<123, 34, 107, 34, 58, 91, 49, 44, 125>>,
      \* [1]x
      <<91, 49, 93, 120>>,
      \* {"k":"a" "l"}
      <<123, 34, 107, 34, 58, 34, 97, 34, 32, 34, 108, 34, 125>>,
      \* ["a",{"k":"\x"}]
      <<91, 34, 97, 34, 44, 123, 34, 107, 34, 58, 34, 92, 120, 34, 125, 93>>,
      \* [{"k":{"l":1}},2] ,
      <<91, 123, 34, 107, 34, 58, 123, 34, 108, 34, 58, 49, 125, 125, 44,
        50, 93, 32, 44>>
    }

FailOptions ==
    { [value |-> 1, has_return_parse_end |-> FALSE, require_null_terminated |-> r,
       failAt |-> k] : r \in BOOLEAN, k \in 0..MaxParseFail }

FailInit == InitMemory /\ text \in PrintTexts \cup BrokenTexts

FailNext ==
    \/ \E o \in FailOptions : ParseText(o)
    \/ \E c \in roots : Delete(c)

FailSpec == FailInit /\ [][FailNext]_vars

(***************************************************************************)
(* C15  Parse failure.  Whenever a parse call returns NULL, for a text     *)
(* that is malformed at any depth, for bytes after the value when the      *)
(* whole text must be consumed, or for an allocation that fails at any     *)
(* point, every node record, string buffer and key buffer the call         *)
(* allocated has been released, once.                                      *)
(***************************************************************************)
ParseFailureReleases ==
    call.op = "ParseWithOpts" /\ ret = NULL
        => live = {} /\ \A a \in DOMAIN heap : TimesFreed(freed, a) = 1

\* an allocation failed below a node of depth two, after four or more blocks,
\* a buffer among them, were given to the call
ParseFailureReleasesWitness ==
    /\ call.op = "ParseWithOpts" /\ ret = NULL
    /\ call.failAt = Len(heap) + 1 /\ Len(heap) >= 4
    /\ \E a \in DOMAIN heap : heap[a].kind = "buf"
    /\ \E a, b \in DOMAIN heap :
           /\ heap[a].kind = "node" /\ heap[b].kind = "node"
           /\ heap[a].child = b /\ heap[b].child # NULL

(***************************************************************************)
(* C16  Layout.  In a formatted serialization every member of an object    *)
(* and every closing brace comes after one newline and as many tabs as it  *)
(* is deep, and the ':' of every key is followed by a single tab (the      *)
(* claim says: by a single space); in an unformatted serialization there   *)
(* is no newline, tab or space outside the string literals, so no ','      *)
(* has a space after it.                                                   *)
(***************************************************************************)
\* the positions of b from i on that are outside the string literals
RECURSIVE OutsideFrom(_, _, _)
OutsideFrom(b, i, instr) ==
    IF i > Len(b) THEN {}
    ELSE IF ~instr
    THEN IF b[i] = Ch.quote THEN OutsideFrom(b, i + 1, TRUE)
         ELSE {i} \cup OutsideFrom(b, i + 1, FALSE)
    ELSE IF b[i] = Ch.bslash THEN OutsideFrom(b, i + 2, TRUE)
    ELSE OutsideFrom(b, i + 1, b[i] # Ch.quote)

\* the number of arrays and objects that are open at position i
DepthAt(b, O, i) ==
    Cardinality({j \in O : j < i /\ b[j] \in {Ch.lbrace, Ch.lbrack}})
    - Cardinality({j \in O : j < i /\ b[j] \in {Ch.rbrace, Ch.rbrack}})

\* the opening quote of the string literal that ends right before position c
KeyStart(b, O, c) ==
    CHOOSE q \in 1..c :
        /\ b[q] = Ch.quote /\ q \notin O /\ q - 1 \in O
        /\ \A j \in (q + 1)..(c - 1) : ~(b[j] = Ch.quote /\ j - 1 \in O)

\* position q comes after one newline and d tabs
Indented(b, q, d) ==
    /\ q > d + 2
    /\ b[q - d - 1] = Ch.lf
    /\ b[q - d - 2] \notin {Ch.lf, Ch.tab, Ch.sp}
    /\ \A k \in (q - d)..(q - 1) : b[k] = Ch.tab

Layout(b, O, fmt, after) ==
    IF fmt
    THEN \A c \in O :
             /\ b[c] = Ch.colon =>
                    /\ Indented(b, KeyStart(b, O, c), DepthAt(b, O, c))
                    /\ b[c + 1] = after
                    /\ b[c + 2] \notin {Ch.lf, Ch.tab, Ch.sp}
             /\ b[c] = Ch.rbrace => Indented(b, c, DepthAt(b, O, c) - 1)
    ELSE \A c \in O : b[c] \notin {Ch.lf, Ch.tab, Ch.sp}

Printed == call.op = "Print" /\ ret # NULL

\* the claim as it is stated: a single space after the ':'
LayoutWithSpace ==
    Printed => Layout(heap[ret].bytes, OutsideFrom(heap[ret].bytes, 1, FALSE),
                      call.fmt, Ch.sp)

LayoutWithTab ==
    Printed => Layout(heap[ret].bytes, OutsideFrom(heap[ret].bytes, 1, FALSE),
                      call.fmt, Ch.tab)

\* a formatted serialization with a member at depth two
LayoutWithTabWitness ==
    /\ Printed /\ call.fmt
    /\ \E c \in OutsideFrom(heap[ret].bytes, 1, FALSE) :
           /\ heap[ret].bytes[c] = Ch.colon
           /\ DepthAt(heap[ret].bytes, OutsideFrom(heap[ret].bytes, 1, FALSE), c) = 2

(***************************************************************************)
(* A host that creates number items and serializes them                    *)
(***************************************************************************)
MaxNumbers == 2

IntValue(n) == [as |-> "number", v |-> n]

DoubleValue(d) == [as |-> "double", v |-> 0, d |-> d]

DecValue(neg, ds, exp) == DoubleValue(Dec(neg, ds, exp))

\* 0, 3, -7, INT_MAX, INT_MAX + 1, 1e20, -1e20, 1e60, 0.1, -2.5, 123.456,
\* 1500000000.5, 1999999999.5, 1e-6, 1e-7, 1e-17, NaN, infinity
Doubles ==
    { IntValue(0), IntValue(3), IntValue(0 - 7), IntValue(2147483647),
      DecValue(FALSE, INT_MIN_digits, 9),
      DecValue(FALSE, <<1>>, 20), DecValue(TRUE, <<1>>, 20),
      DecValue(FALSE, <<1>>, 60),
      DecValue(FALSE, <<1>>, 0 - 1), DecValue(TRUE, <<2, 5>>, 0),
      DecValue(FALSE, <<1, 2, 3, 4, 5, 6>>, 2),
      DecValue(FALSE, <<1, 5, 0, 0, 0, 0, 0, 0, 0, 0, 5>>, 9),
      DecValue(FALSE, <<1, 9, 9, 9, 9, 9, 9, 9, 9, 9, 5>>, 9),
      DecValue(FALSE, <<1>>, 0 - 6), DecValue(FALSE, <<1>>, 0 - 7),
      DecValue(FALSE, <<1>>, 0 - 17),
      DoubleValue(NaN), DoubleValue(Infinity) }

CreateNumber(num, max) ==
    /\ Len(heap) < max
    /\ LET created(r) == Returned(r.m) /\ ret' = r.p /\ roots' = roots \cup {r.p}
       IN  created(internal_cJSON_CreateNumber(Memory, num))
    /\ call' = [op |-> "CreateNumber", n |-> call.n]
    /\ UNCHANGED <<text, global_ep, return_parse_end, hi, container, printbuffer, threads>>

NumberInit == InitMemory /\ text = <<>>

NumberNext ==
    \/ \E num \in Doubles : CreateNumber(num, MaxNumbers)
    \/ \E item \in roots, fmt \in BOOLEAN, failAt \in 0..1 : PrintItem(item, fmt, failAt)

NumberSpec == NumberInit /\ [][NumberNext]_vars

(***************************************************************************)
(* C17  Number rendering.  3.0 is serialized as 3, 0.1 as 0.100000 and NaN *)
(* as null; 1e20, an integer below 1e60, is serialized in fixed point      *)
(* with no fractional digit, as 100000000000000000000 (the claim says: in  *)
(* scientific notation).                                                   *)
(***************************************************************************)
Rendered(num, bytes) ==
    Printed /\ heap[call.item].value = num => heap[ret].bytes = bytes

\* the bytes have the shape of scientific notation: a digit, a point, digits,
\* e, a sign, digits
Scientific(b) ==
    \E e \in 3..(Len(b) - 2) :
        /\ b[e] = 101 /\ b[e + 1] \in {43, Ch.minus}
        /\ b[2] = 46
        /\ \A i \in (1..Len(b)) \ {2, e, e + 1} : IsDigit(b[i])

ThreeAndTenthAndNaN ==
    /\ Rendered(IntValue(3), <<Ch.d0 + 3>>)
    /\ Rendered(DecValue(FALSE, <<1>>, 0 - 1),
                <<Ch.d0, 46, Ch.d0 + 1, Ch.d0, Ch.d0, Ch.d0, Ch.d0, Ch.d0>>)
    /\ Rendered(DoubleValue(NaN), Lit.null)

\* the claim as it is stated
NumberRenderingScientific ==
    /\ ThreeAndTenthAndNaN
    /\ Printed /\ heap[call.item].value = DecValue(FALSE, <<1>>, 20)
           => Scientific(heap[ret].bytes)

NumberRenderingFixed ==
    /\ ThreeAndTenthAndNaN
    /\ Rendered(DecValue(FALSE, <<1>>, 20), <<Ch.d0 + 1>> \o digit_chars(zeros(20)))

\* 1e20 was serialized
NumberRenderingFixedWitness ==
    Printed /\ heap[call.item].value = DecValue(FALSE, <<1>>, 20)

(***************************************************************************)
(* A host that minifies its text, and then what it got                     *)
(***************************************************************************)
MaxPieces == 3
MaxMinify == 2

\* {  "a b"  "\""  "/*"  "//"  space  tab  newline  //x and a newline  /*x*/
\* :  1  "a  /*  "\  /  */  ,
Pieces ==
    { <<123>>,
      <<34, 97, 32, 98, 34>>,
      <<34, 92, 34, 34>>,
      <<34, 47, 42, 34>>,
      <<34, 47, 47, 34>>,
      <<32>>,
      <<9>>,
      <<10>>,
      <<47, 47, 120, 10>>,
      <<47, 42, 120, 42, 47>>,
      <<58>>,
      <<49>>,
      <<34, 97>>,
      <<47, 42>>,
      <<34, 92>>,
      <<47>>,
      <<42, 47>>,
      <<44>> }

MinifyTexts ==
    UNION { { Flatten(ps) : ps \in [1..n -> Pieces] } : n \in 0..MaxPieces }

\* what may follow the terminator of the text in memory: a, or "
Beyond == { <<Ch.a>>, <<Ch.quote>> }

\* the text of a buffer: its bytes up to the first zero
RECURSIVE c_string(_, _)
c_string(mem, p) == IF At(mem, p) = 0 THEN <<>> ELSE <<mem[p]>> \o c_string(mem, p + 1)

Minify(beyond) ==
    /\ call.n < MaxMinify
    /\ LET minified(r) ==
               /\ text' = c_string(r.mem, 1)
               /\ hi' = r.hi
               /\ call' = [op |-> "Minify", n |-> call.n + 1, json |-> text,
                           whi |-> r.whi]
       IN  minified(cJSON_Minify(text \o <<0>> \o beyond))
    /\ UNCHANGED <<heap, live, freed, ret, global_ep, return_parse_end, roots, container, printbuffer, threads>>

MinifyInit == InitMemory /\ text \in MinifyTexts

MinifyNext == \E beyond \in Beyond : Minify(beyond)

MinifySpec == MinifyInit /\ [][MinifyNext]_vars

(***************************************************************************)
(* C18  Minify.  A text with no space, tab, CR or LF and no // or /*       *)
(* outside its string literals, and with every string literal terminated,  *)
(* is returned byte for byte; and of a text whose literals and comments    *)
(* are all terminated the string literals come out as they went in, with   *)
(* the escaped quotes, the whitespace and the comment-like sequences they  *)
(* hold.                                                                   *)
(***************************************************************************)
\* is the text b read from i on, inside a literal when instr, left outside
\* every literal at its end
RECURSIVE Terminated(_, _, _)
Terminated(b, i, instr) ==
    IF i > Len(b) THEN ~instr /\ i = Len(b) + 1
    ELSE IF ~instr THEN Terminated(b, i + 1, b[i] = Ch.quote)
    ELSE IF b[i] = Ch.bslash THEN Terminated(b, i + 2, TRUE)
    ELSE Terminated(b, i + 1, b[i] # Ch.quote)

Minified(b) ==
    /\ Terminated(b, 1, FALSE)
    /\ \A i \in OutsideFrom(b, 1, FALSE) :
           /\ b[i] \notin {Ch.sp, Ch.tab, Ch.cr, Ch.lf}
           /\ ~(b[i] = Ch.slash /\ Byte(b, i + 1) \in {Ch.slash, 42})

\* the index of the quote that closes the literal whose contents start at i,
\* Len(b) + 1 or more when there is none
RECURSIVE LiteralEnd(_, _)
LiteralEnd(b, i) ==
    IF i > Len(b) THEN i
    ELSE IF b[i] = Ch.bslash THEN LiteralEnd(b, i + 2)
    ELSE IF b[i] = Ch.quote THEN i
    ELSE LiteralEnd(b, i + 1)

\* the index after the comment that opens at i
RECURSIVE CommentEnd(_, _, _)
CommentEnd(b, i, line) ==
    IF i > Len(b) THEN IF line THEN i ELSE Len(b) + 2
    ELSE IF line THEN IF b[i] = Ch.lf THEN i ELSE CommentEnd(b, i + 1, line)
    ELSE IF b[i] = 42 /\ Byte(b, i + 1) = Ch.slash THEN i + 2
    ELSE CommentEnd(b, i + 1, line)

\* the string literals of b from i on, in order; comments hide what they hold
\* when the text is one that may have comments.  ok: every literal and every
\* comment has its end within b
RECURSIVE Literals(_, _, _)
Literals(b, i, comments) ==
    LET rest(lit, e) ==
            [seq |-> lit \o Literals(b, e, comments).seq,
             ok |-> e <= Len(b) + 1 /\ Literals(b, e, comments).ok]
    IN  IF i > Len(b) THEN [seq |-> <<>>, ok |-> TRUE]
        ELSE IF b[i] = Ch.quote
        THEN rest(<<SubSeq(b, i, IF LiteralEnd(b, i + 1) <= Len(b)
                                 THEN LiteralEnd(b, i + 1) ELSE Len(b))>>,
                  LiteralEnd(b, i + 1) + 1)
        ELSE IF comments /\ b[i] = Ch.slash /\ Byte(b, i + 1) = Ch.slash
        THEN rest(<<>>, CommentEnd(b, i, TRUE))
        ELSE IF comments /\ b[i] = Ch.slash /\ Byte(b, i + 1) = 42
        THEN rest(<<>>, CommentEnd(b, i + 2, FALSE))
        ELSE rest(<<>>, i + 1)

MaxMutHeap == 6
MaxMutCopy == 7
MaxMutFreed == 3

\* [1]
MutTexts == { <<Ch.lbrack, Ch.d0 + 1, Ch.rbrack>> }

\* strcmp(c->name, name) on a child with no key ends the program
AllNamed == \A c \in NodesOf(heap, heap[container].child) \cap
                      {n \in DOMAIN heap : \E i \in DOMAIN chain(heap, heap[container].child) :
                                              chain(heap, heap[container].child)[i] = n} :
                heap[c].name # NULL

MutInit ==
    /\ heap = StaticKeys /\ live = {} /\ freed = <<>>
    /\ call = NoCall /\ ret = NULL
    /\ global_ep = NullPos /\ return_parse_end = NullPos
    /\ printbuffer = NoBuffer /\ threads = <<>>
    /\ hi = 0 /\ roots = {} /\ container = NULL
    /\ text \in MutTexts

\* the host parses first
Parsed == call.op # "none"

MutNext ==
    \/ \E o \in RefOptions : ParseText(o)
    \/ Parsed /\ CreateArray(MaxMutHeap)
    \/ Parsed /\ CreateObject(MaxMutHeap)
    \/ Parsed /\ CreateNull(MaxMutHeap)
    \/ \E item \in roots : AddItemToArray(item)
    \/ \E name \in Names, item \in roots, failAt \in 0..1 :
           Len(freed) < MaxMutFreed /\ AddItemToObject(name, item, failAt, MaxMutCopy)
    \/ \E item \in roots : AddItemToObjectCS(1, item)
    \/ \E which \in 0..1, item \in roots : InsertItemInArray(which, item)
    \/ \E which \in 0..1 : DetachItemFromArray(which)
    \/ \E which \in 0..1, item \in roots : ReplaceItemInArray(which, item)
    \/ \E name \in Names, item \in roots :
           container # NULL /\ AllNamed /\ ReplaceItemInObject(name, item, MaxMutCopy)
    \/ \E item \in roots \cup {container}, recurse \in BOOLEAN :
           Duplicate(item, recurse, 0, MaxMutCopy)
    \/ \E c \in roots \cup {container} : Delete(c)

MutSpec == MutInit /\ [][MutNext]_vars

(***************************************************************************)
(* C19  Shape.  In every state the host reaches by appending, appending    *)
(* with a key, inserting, detaching, replacing and copying, no walk along  *)
(* next and child links comes back to a node, every node has at most one   *)
(* link to it from the nodes that are not references, and an item the      *)
(* host holds has none.                                                    *)
(***************************************************************************)
LiveNodes == { n \in live : heap[n].kind = "node" }

LinksTo(n) ==
    { <<p, "child">> : p \in { q \in LiveNodes : ~heap[q].is_reference /\ heap[q].child = n } }
    \cup { <<p, "next">> : p \in { q \in LiveNodes : heap[q].next = n } }

\* every walk from c is over within k links
RECURSIVE Ends(_, _, _)
Ends(h, c, k) ==
    \/ c = NULL
    \/ k > 0 /\ Ends(h, h[c].next, k - 1) /\ Ends(h, h[c].child, k - 1)

IsArray == container # NULL /\ heap[container].type = "Array"

IsObject == container # NULL /\ heap[container].type = "Object"

KindNext ==
    \/ \E o \in RefOptions : ParseText(o)
    \/ Parsed /\ CreateArray(MaxMutHeap)
    \/ Parsed /\ CreateObject(MaxMutHeap)
    \/ Parsed /\ CreateNull(MaxMutHeap)
    \/ \E item \in roots : IsArray /\ AddItemToArray(item)
    \/ \E name \in Names, item \in roots, failAt \in 0..1 :
           /\ IsObject /\ Len(freed) < MaxMutFreed
           /\ AddItemToObject(name, item, failAt, MaxMutCopy)
    \/ \E item \in roots : IsObject /\ AddItemToObjectCS(1, item)
    \/ \E which \in 0..1 : DetachItemFromArray(which)
    \/ \E c \in roots \cup {container} : Delete(c)

KindSpec == MutInit /\ [][KindNext]_vars

(***************************************************************************)
(* C20  Keys.  In every state the host reaches by parsing and by the       *)
(* mutation calls, every child of an object has a key and no child of an   *)
(* array has one.                                                          *)
(***************************************************************************)
ChildrenOf(p) ==
    { chain(heap, heap[p].child)[i] : i \in DOMAIN chain(heap, heap[p].child) }

KeysMatchKind ==
    \A p \in { q \in LiveNodes : ~heap[q].is_reference } :
        /\ heap[p].type = "Object" => \A c \in ChildrenOf(p) : heap[c].name # NULL
        /\ heap[p].type = "Array" => \A c \in ChildrenOf(p) : heap[c].name = NULL

(***************************************************************************)
(* A host that keeps one print buffer: it allocates it, asks ensure for    *)
(* room and fills the room it was given, as the printing functions do.     *)
(* size_t is EnsureBits wide, so that sums and doublings wrap.             *)
(***************************************************************************)
EnsureBits == 4
MaxNeeded == 5

Narrow(m) == [m EXCEPT !.bits = EnsureBits]

\* the byte the host stores at index i of its buffer
Mark(i) == 100 + i

Marks(from, n) == [i \in 1..n |-> Mark(from + i)]

\* p.buffer = malloc_fn(length), as cJSON_PrintBuffered does, then offset bytes written
Prebuffer(length, offset) ==
    /\ call.op = "none"
    /\ LET made(r) ==
               /\ Returned(poke(r.m, Ptr(r.p, 0), Marks(0, offset)))
               /\ printbuffer' = [buffer |-> r.p, length |-> length, offset |-> offset]
       IN  made(malloc_bytes(Narrow(Memory), length))
    /\ call' = [op |-> "Prebuffer", length |-> length, offset |-> offset]
    /\ ret' = NoPtr
    /\ UNCHANGED <<text, global_ep, return_parse_end, hi, roots, container, threads>>

Ensure(needed, failAt) ==
    /\ call.op # "none"
    /\ LET ensured(r) ==
               /\ Returned(r.m)
               /\ printbuffer' = r.pb
               /\ ret' = r.out
       IN  ensured(ensure(Narrow(Machine(heap, live, freed, failAt)), printbuffer, needed))
    /\ call' = [op |-> "ensure", p |-> printbuffer, needed |-> needed, failAt |-> failAt]
    /\ UNCHANGED <<text, global_ep, return_parse_end, hi, roots, container, threads>>

\* the caller of ensure writes the bytes it asked for and adds them to p->offset
Fill ==
    /\ call.op = "ensure" /\ ret # NoPtr
    /\ Returned(poke(Memory, ret, Marks(ret.offset, call.needed)))
    /\ printbuffer' = [printbuffer EXCEPT
                           !.offset = size_t(Narrow(Memory), @ + call.needed)]
    /\ call' = [op |-> "Fill", needed |-> call.needed]
    /\ UNCHANGED <<text, ret, global_ep, return_parse_end, hi, roots, container, threads>>

EnsureInit == InitMemory /\ text = <<>>

\* every buffer the width allows, and one request
EnsureNext ==
    \/ \E length \in 1..(2 ^ EnsureBits - 1) : \E offset \in 0..length :
           Prebuffer(length, offset)
    \/ \E needed \in 0..(2 ^ EnsureBits - 1), failAt \in 0..1 :
           call.op = "Prebuffer" /\ Ensure(needed, failAt)
    \/ Fill

EnsureSpec == EnsureInit /\ [][EnsureNext]_vars

\* a buffer started at capacity 1, and any sequence of requests
GrowNext ==
    \/ \E offset \in 0..1 : Prebuffer(1, offset)
    \/ \E needed \in 0..MaxNeeded, failAt \in 0..1 : Ensure(needed, failAt)
    \/ Fill

GrowSpec == EnsureInit /\ [][GrowNext]_vars

(***************************************************************************)
(* C21  Room.  With sizes of EnsureBits bits, for every capacity, every    *)
(* offset within it and every additionalBytesNeeded, a call of ensure that *)
(* does not fail returns the address at the offset, and the buffer holds   *)
(* at least additionalBytesNeeded bytes from there on.                     *)
(***************************************************************************)
EnsureGivesRoom ==
    call.op = "ensure" /\ ret # NoPtr
    => /\ ret = Ptr(printbuffer.buffer, call.p.offset)
       /\ call.p.offset + call.needed <= printbuffer.length

(***************************************************************************)
(* C22  Growth.  A call of ensure that allocates and succeeds leaves a     *)
(* buffer of twice the larger of the capacity and offset + needed, with    *)
(* every byte of the old buffer at the same index, the offset as it was    *)
(* and the old storage released once; a call whose request fits in the     *)
(* remaining capacity changes neither the buffer nor the memory.           *)
(***************************************************************************)
EnsureStep ==
    call'.op = "ensure" =>
        /\ Len(heap') > Len(heap) /\ ret' # NoPtr =>
              /\ printbuffer.offset + call'.needed > printbuffer.length
              /\ printbuffer'.length =
                     2 * Max(printbuffer.length, printbuffer.offset + call'.needed)
              /\ heap'[printbuffer'.buffer].size = printbuffer'.length
              /\ printbuffer'.offset = printbuffer.offset
              /\ ret' = Ptr(printbuffer'.buffer, printbuffer.offset)
              /\ \A i \in 1..printbuffer.length :
                     heap'[printbuffer'.buffer].bytes[i] = heap[printbuffer.buffer].bytes[i]
              /\ printbuffer.buffer \notin live'
              /\ TimesFreed(freed', printbuffer.buffer) = 1
              /\ printbuffer'.buffer \in live'
        /\ printbuffer.offset + call'.needed <= printbuffer.length =>
              /\ printbuffer' = printbuffer
              /\ heap' = heap /\ live' = live /\ freed' = freed

EnsureKeepsBytes == [][EnsureStep]_vars

\* a buffer started at capacity 1 has grown a second time, with bytes written
EnsureKeepsBytesWitness ==
    /\ call.op = "ensure" /\ ret # NoPtr
    /\ Len(heap) = 3 /\ heap[1].size = 1
    /\ printbuffer.buffer = 3 /\ call.p.buffer = 2
    /\ printbuffer.offset >= 3
    /\ \A i \in 1..printbuffer.offset : heap[3].bytes[i] = Mark(i)

(***************************************************************************)
(* A host that parses a text and prints the tree, or no tree, into a       *)
(* buffer of a size it chooses                                             *)
(***************************************************************************)
MaxBufFail == 6

Prebuffers == { 1, 2, 7, 64 }

\* the failAt-th allocation of the call fails; failed tells whether the call
\* came that far, base is the last address handed out before the call
PrintBuffered(item, prebuffer, fmt, failAt) ==
    /\ call.op = "ParseWithOpts"
    /\ LET returned(r) ==
               /\ Returned(r.m)
               /\ ret' = r.out
               /\ call' = [op |-> "PrintBuffered", n |-> call.n + 1, item |-> item,
                           prebuffer |-> prebuffer, fmt |-> fmt, failAt |-> failAt,
                           failed |-> failAt # 0 /\ r.m.nalloc >= failAt,
                           base |-> Len(heap)]
       IN  returned(cJSON_PrintBuffered(Machine(heap, live, freed, failAt), item,
                                        prebuffer, fmt))
    /\ UNCHANGED <<text, global_ep, return_parse_end, hi, roots, container,
                   printbuffer, threads>>

BufInit == InitMemory /\ text \in PrintTexts

BufNext ==
    \/ \E o \in RefOptions : ParseText(o)
    \/ \E item \in roots \cup {NULL}, prebuffer \in Prebuffers, fmt \in BOOLEAN,
          failAt \in 0..MaxBufFail :
           PrintBuffered(item, prebuffer, fmt, failAt)

BufSpec == BufInit /\ [][BufNext]_vars

(***************************************************************************)
(* C23  Failure.  A call of cJSON_PrintBuffered during which an allocation *)
(* fails, be it the first buffer or any growth, returns NULL.              *)
(***************************************************************************)
BufferedFailureIsAbsence ==
    call.op = "PrintBuffered" /\ call.failed => ret = NoPtr

\* the buffer could not grow a third time, inside a nested container
BufferedFailureIsAbsenceWitness ==
    /\ call.op = "PrintBuffered" /\ call.failed /\ ret = NoPtr
    /\ call.failAt = 4 /\ call.prebuffer = 1 /\ call.fmt
    /\ call.item # NULL /\ heap[call.item].type = "Object"
    /\ heap[heap[call.item].child].type = "Object"
    /\ Len(heap) = call.base + 3
    /\ live = 1..call.base

(***************************************************************************)
(* C25  Same text.  For every tree, both settings of fmt and every size    *)
(* of the first buffer, a call of cJSON_PrintBuffered during which no      *)
(* allocation fails returns the text that cJSON_Print, or                  *)
(* cJSON_PrintUnformatted, returns for the tree, and writes no byte        *)
(* outside its buffers.                                                    *)
(***************************************************************************)
BufferedText == c_string(heap[ret.buffer].bytes, ret.offset + 1)

BufferedAsUnbuffered ==
    call.op = "PrintBuffered" /\ ~call.failed /\ call.item # NULL =>
        /\ ret # NoPtr
        /\ LET same(r) == r.p # NULL /\ BufferedText = r.m.heap[r.p].bytes
           IN  same(print_value(Memory, call.item, 0, call.fmt))
        /\ \A a \in (call.base + 1)..Len(heap) : Len(heap[a].bytes) = heap[a].size

\* nested objects, one of them empty, indented, from a buffer of one byte
BufferedAsUnbufferedWitness ==
    /\ call.op = "PrintBuffered" /\ ~call.failed /\ call.fmt /\ call.prebuffer = 1
    /\ ret # NoPtr /\ Len(heap) >= call.base + 3
    /\ call.item # NULL /\ heap[call.item].type = "Object"
    /\ heap[heap[call.item].child].type = "Object"
    /\ heap[heap[heap[call.item].child].next].child = NULL
    /\ \E i \in 1..Len(BufferedText) - 2 :
           SubSeq(BufferedText, i, i + 2) = <<Ch.lf, Ch.tab, Ch.tab>>

(***************************************************************************)
(* C26  No buffer left.  When cJSON_PrintBuffered returns NULL, whatever   *)
(* the reason, every buffer the call allocated has been released.          *)
(***************************************************************************)
BufferedAbsenceReleases ==
    call.op = "PrintBuffered" /\ ret = NoPtr => \A a \in live : a <= call.base

(***************************************************************************)
(* Two calls of cJSON_ParseWithOpts at once, neither with a slot of its    *)
(* own.  threads[i] is the frame of call i: its text, its flag, where it   *)
(* stands and its locals c and end.  A call reads no memory that the other *)
(* writes, except that both store into global_ep; a store is one step.     *)
(***************************************************************************)
RaceTexts ==
    { <<Ch.d0 + 1>>, <<Ch.d0 + 1, Ch.sp, Ch.A>>, <<Ch.minus>>,
      <<Ch.lbrack, Ch.d0 + 1, Ch.comma, Ch.rbrack>>,
      <<Ch.lbrack, Ch.d0 + 1, Ch.comma, Ch.d0 + 2, Ch.rbrack>>,
      <<Ch.lbrace, Ch.quote, Ch.a, Ch.quote, Ch.colon, Ch.rbrack>> }

Frame(value, require_null_terminated) ==
    [value |-> value, require_null_terminated |-> require_null_terminated,
     pc |-> "enter", c |-> NULL, end |-> NULL, ret |-> NULL]

\* a parse after which global_ep not being NULL counts as a failure
ParseEnd_shared(i) ==
    /\ threads[i].pc = "end"
    /\ LET ended(r) ==
               /\ Returned(r.m)
               /\ global_ep' = IF r.ep # NULL THEN Pos(threads[i].value, r.ep)
                               ELSE global_ep
               /\ threads' = [threads EXCEPT ![i].pc = "done", ![i].ret = r.c]
       IN  ended(parse_end(threads[i].value, threads[i].c,
                           [m |-> Memory,
                            end |-> IF global_ep # NullPos THEN NULL
                                    ELSE threads[i].end],
                           FALSE, threads[i].require_null_terminated))
    /\ UNCHANGED <<text, call, ret, return_parse_end, hi, roots, container, printbuffer>>

\* c = cJSON_New_Item(hooks); *ep = NULL
ParseEnter(i) ==
    /\ threads[i].pc = "enter"
    /\ LET made(r) ==
               /\ Returned(r.m)
               /\ threads' = [threads EXCEPT ![i].pc = "value", ![i].c = r.p]
       IN  made(cJSON_New_Item(Memory))
    /\ global_ep' = NullPos
    /\ UNCHANGED <<text, call, ret, return_parse_end, hi, roots, container, printbuffer>>

\* end = parse_value(c, skip(value), ep, hooks), which stores into *ep when it fails
ParseValue(i) ==
    /\ threads[i].pc = "value"
    /\ LET parsed(r) ==
               /\ Returned(r.m)
               /\ global_ep' = IF r.m.ep # NULL THEN Pos(threads[i].value, r.m.ep)
                               ELSE global_ep
               /\ threads' = [threads EXCEPT ![i].pc = "end", ![i].end = r.end]
       IN  parsed(parse_value(threads[i].value, Memory, threads[i].c,
                              skip(threads[i].value, 1)))
    /\ UNCHANGED <<text, call, ret, return_parse_end, hi, roots, container, printbuffer>>

\* the rest of the call: the failure return, the test for the terminator, which
\* stores into *ep when it fails, and the return of c
ParseEnd(i) ==
    /\ threads[i].pc = "end"
    /\ LET ended(r) ==
               /\ Returned(r.m)
               /\ global_ep' = IF r.ep # NULL THEN Pos(threads[i].value, r.ep)
                               ELSE global_ep
               /\ threads' = [threads EXCEPT ![i].pc = "done", ![i].ret = r.c]
       IN  ended(parse_end(threads[i].value, threads[i].c,
                           [m |-> Memory, end |-> threads[i].end],
                           FALSE, threads[i].require_null_terminated))
    /\ UNCHANGED <<text, call, ret, return_parse_end, hi, roots, container, printbuffer>>

RaceInit ==
    /\ heap = <<>> /\ live = {} /\ freed = <<>>
    /\ call = NoCall /\ ret = NULL /\ text = <<>>
    /\ global_ep = NullPos /\ return_parse_end = NullPos
    /\ hi = 0 /\ roots = {} /\ container = NULL /\ printbuffer = NoBuffer
    /\ threads \in { <<Frame(t1, r1), Frame(t2, r2)>> :
                        <<t1, t2>> \in RaceTexts \X RaceTexts,
                        <<r1, r2>> \in BOOLEAN \X BOOLEAN }

RaceNext ==
    \E i \in 1..2 : ParseEnter(i) \/ ParseValue(i) \/ ParseEnd(i)

RaceSpec == RaceInit /\ [][RaceNext]_vars

(***************************************************************************)
(* C24  Interleaving.  However the steps of the two calls interleave, a    *)
(* call that has returned has returned the tree, or the absence, that it   *)
(* returns when it runs alone on its text; global_ep holds NULL or a       *)
(* position in the text of one of the two calls.                           *)
(***************************************************************************)
Alone(i) ==
    cJSON_ParseWithOpts(threads[i].value, 1, Machine(<<>>, {}, <<>>, 0), FALSE,
                        threads[i].require_null_terminated)

AsAlone(i, r) ==
    /\ threads[i].ret = NULL <=> r.c = NULL
    /\ threads[i].ret # NULL => TreeOf(heap, threads[i].ret) = TreeOf(r.m.heap, r.c)

InterleavedParses ==
    /\ \A i \in 1..2 : threads[i].pc = "done" => AsAlone(i, Alone(i))
    /\ \/ global_ep = NullPos
       \/ \E i \in 1..2 : /\ global_ep.text = threads[i].value
                           /\ global_ep.off \in 1..Len(threads[i].value) + 1

\* call 1 has failed at a position and returned while call 2, which entered
\* after that position was stored, is still parsing: global_ep is NULL
InterleavedParsesWitness ==
    /\ threads[1].pc = "done" /\ threads[1].ret = NULL
    /\ threads[2].pc = "value"
    /\ global_ep = NullPos
    /\ Alone(1).ep # NULL

(***************************************************************************)
(* C27  Bounds of minify.  For every text, whether or not its string       *)
(* literals and comments are closed, cJSON_Minify reads and writes no byte *)
(* after the terminator of the text, and the text it leaves is no longer   *)
(* than the text it was given.                                             *)
(***************************************************************************)
MinifyInBounds ==
    call.op = "Minify" =>
        /\ hi <= Len(call.json) + 1
        /\ call.whi <= Len(call.json) + 1
        /\ Len(text) <= Len(call.json)

====
